---- MODULE Spec2Model ----
(***************************************************************************)
(* Model of the dedalus field layout state machine (dedalus2/core/field.py)*)
(* and of the pencil system buffer (dedalus2/data/pencil.py).              *)
(*                                                                         *)
(* The distributor (layout chain, transform/transpose paths) and the       *)
(* transform backend are collaborators of these files; they are modelled   *)
(* from their documented interface: layouts 0..N from all-coefficient to   *)
(* all-grid, path i joining layouts i and i+1, increment/decrement moving  *)
(* a field along one path and assigning its layout.                        *)
(***************************************************************************)
EXTENDS Integers, Sequences, FiniteSets, TLC

\* ---------------------------------------------------------------- bounds
MaxDim == 2
MaxPencilDim == 3
MaxFields == 2
MaxCoeff == 2
Scales == {1, 2}

\* ------------------------------------------------ sizes of the collaborators
CoeffSize == 2
GridSize == 4
MeshSize == 2

None == -1
NoRewind == -2

VARIABLES dom, field, pc, op, exc, hist, rt, sys, pset, plog,
          pencils, mats, expr, res

vars == <<dom, field, pc, op, exc, hist, rt, sys, pset, plog,
          pencils, mats, expr, res>>

\* ------------------------------------------------------------ layout chain
Axes(d) == 0 .. (d.dim - 1)

\* number of paths; the layouts are 0 .. NPaths(d)
NPaths(d) == d.dim + d.mesh

coeff_layout(d) ==
    [index |-> 0,
     grid_space |-> [a \in Axes(d) |-> FALSE],
     local |-> [a \in Axes(d) |-> a >= d.mesh]]

\* last axis still in coefficient space: the axis the next path acts on
NextAxis(l, d) ==
    CHOOSE a \in Axes(d) : /\ ~l.grid_space[a]
                           /\ \A b \in Axes(d) : b > a => l.grid_space[b]

\* layout after the path leaving l: a transform when the axis is local,
\* otherwise a transpose that makes it local
NextLayout(l, d) ==
    LET a == NextAxis(l, d) IN
    IF l.local[a]
    THEN [l EXCEPT !.index = @ + 1, !.grid_space[a] = TRUE]
    ELSE [l EXCEPT !.index = @ + 1,
                   !.local = [b \in Axes(d) |->
                                IF b = a THEN TRUE
                                ELSE IF b = a + 1 THEN FALSE
                                ELSE l.local[b]]]

RECURSIVE BuildLayout(_, _)
BuildLayout(d, i) ==
    IF i = 0 THEN coeff_layout(d) ELSE NextLayout(BuildLayout(d, i - 1), d)

\* a domain: its dimension, the dimension of the process mesh, the
\* coefficient extent of each axis and the layouts its distributor built
Domains(maxdim, sizes) ==
    {[dim |-> dd.dim, mesh |-> dd.mesh, csize |-> dd.csize,
      layouts |-> [i \in 0 .. NPaths(dd) |-> BuildLayout(dd, i)]] :
        dd \in {x \in [dim : 1 .. maxdim, mesh : 0 .. maxdim, csize : sizes] :
                  x.mesh < x.dim}}

LayoutAt(d, i) == d.layouts[i]

grid_layout(d) == LayoutAt(d, NPaths(d))

\* path i joins layouts i and i+1
PathAt(d, i) ==
    LET l == LayoutAt(d, i)
        a == NextAxis(l, d)
    IN [kind |-> IF l.local[a] THEN "transform" ELSE "transpose", axis |-> a]

all_grid(l, d) == \A a \in Axes(d) : l.grid_space[a]
any_grid(l, d) == \E a \in Axes(d) : l.grid_space[a]

local_shape(l, scales, d) ==
    [a \in Axes(d) |->
        LET n == IF l.grid_space[a] THEN GridSize * scales[a] ELSE d.csize
        IN IF l.local[a] THEN n ELSE n \div MeshSize]

\* ------------------------------------------------------------- field data
\* The buffer contents are kept symbolically.  An array `base` was written
\* into the buffer; since then the contents were taken down to the
\* representation of layout `low` by backward steps, and the forward steps
\* of paths low .. at-1 were applied after that, so that the buffer now
\* holds the representation of layout `at`.  A backward step undoes the
\* forward step of the same path (the transform pair is a round trip); a
\* forward step does not undo a backward step.  A step applied to contents
\* that are not in the representation its path starts from leaves contents
\* of which nothing is known (Junk).
Junk == [ok |-> FALSE, base |-> "junk", low |-> 0, at |-> 0]
Written(value, L) == [ok |-> TRUE, base |-> value, low |-> L, at |-> L]
FreshData(L) == Written("zero", L)
UserData == {"u"}

forward(data, i) ==
    IF data.ok /\ data.at = i
    THEN [data EXCEPT !.at = i + 1]
    ELSE Junk

backward(data, i) ==
    IF data.ok /\ data.at = i + 1
    THEN [data EXCEPT !.at = i, !.low = IF @ > i THEN i ELSE @]
    ELSE Junk

\* ------------------------------------------------------------------ Field
\* Field.layout setter: assign the layout and rebuild the data view
\* (the same buffer seen through another layout is not the transform of the
\* contents: nothing is known of what the new view shows)
layout_setter(f, d, L) ==
    [f EXCEPT !.layout = L,
              !.shape = local_shape(LayoutAt(d, L), f.scales, d),
              !.data = IF @.at = L THEN @ ELSE Junk]

\* paths[i].increment([field]) and paths[i].decrement([field])
increment(f, d, i) ==
    layout_setter([f EXCEPT !.data = forward(f.data, i)], d, i + 1)

decrement(f, d, i) ==
    layout_setter([f EXCEPT !.data = backward(f.data, i)], d, i)

\* a Python list index: negative indices count from the end
InRange(d, k) == k >= -NPaths(d) /\ k < NPaths(d)
PyIndex(d, k) == IF k < 0 THEN k + NPaths(d) ELSE k

towards_grid_index(f) == f.layout

\* (variants of towards_coeff_index: skipping a path, taking the path above)
towards_coeff_index_skip(f) == f.layout - 2
towards_coeff_index_above(f) == f.layout

towards_coeff_index(f) == f.layout - 1

towards_grid_space(f, d) ==
    LET k == towards_grid_index(f) IN
    IF InRange(d, k) THEN increment(f, d, PyIndex(d, k)) ELSE f

towards_coeff_space(f, d) ==
    LET k == towards_coeff_index(f) IN
    IF InRange(d, k) THEN decrement(f, d, PyIndex(d, k)) ELSE f

towards_raises(f, d, dir) ==
    IF dir = "grid" THEN ~InRange(d, towards_grid_index(f))
    ELSE ~InRange(d, towards_coeff_index(f))

towards(f, d, dir) ==
    IF dir = "grid" THEN towards_grid_space(f, d) ELSE towards_coeff_space(f, d)

\* Field.__init__ with allocate=True: coefficient layout, scales 1
NewField(d) ==
    layout_setter([layout |-> 0,
                   scales |-> [a \in Axes(d) |-> 1],
                   shape |-> [a \in Axes(d) |-> 0],
                   data |-> FreshData(0)], d, 0)

\* (variants of require_layout_dir: walking away from the target, and
\* comparing with <= and >=)
require_layout_dir_away(f, start, target) ==
    IF start.layout < target
    THEN (IF f.layout < target THEN "coeff" ELSE "done")
    ELSE IF start.layout > target
         THEN (IF f.layout > target THEN "grid" ELSE "done")
         ELSE "done"

require_layout_dir_incl(f, start, target) ==
    IF start.layout <= target
    THEN (IF f.layout <= target THEN "grid" ELSE "done")
    ELSE (IF f.layout >= target THEN "coeff" ELSE "done")

\* loop conditions: the direction of the next step, or "done"
require_layout_dir(f, start, target) ==
    IF start.layout < target
    THEN (IF f.layout < target THEN "grid" ELSE "done")
    ELSE IF start.layout > target
         THEN (IF f.layout > target THEN "coeff" ELSE "done")
         ELSE "done"

\* (variant of require_grid_space_dir: any() in place of all())
require_grid_space_dir_any(f, d, axis) ==
    LET l == LayoutAt(d, f.layout) IN
    IF axis = None
    THEN (IF ~any_grid(l, d) THEN "grid" ELSE "done")
    ELSE (IF ~l.grid_space[axis] THEN "grid" ELSE "done")

require_grid_space_dir(f, d, axis) ==
    LET l == LayoutAt(d, f.layout) IN
    IF axis = None
    THEN (IF ~all_grid(l, d) THEN "grid" ELSE "done")
    ELSE (IF ~l.grid_space[axis] THEN "grid" ELSE "done")

\* (variant of require_coeff_space_dir: the walk goes toward grid space)
require_coeff_space_dir_grid(f, d, axis) ==
    LET l == LayoutAt(d, f.layout) IN
    IF axis = None
    THEN (IF any_grid(l, d) THEN "grid" ELSE "done")
    ELSE (IF l.grid_space[axis] THEN "grid" ELSE "done")

require_coeff_space_dir(f, d, axis) ==
    LET l == LayoutAt(d, f.layout) IN
    IF axis = None
    THEN (IF any_grid(l, d) THEN "coeff" ELSE "done")
    ELSE (IF l.grid_space[axis] THEN "coeff" ELSE "done")

\* (variant of require_local_dir: the two branches exchanged)
require_local_dir_swapped(f, start, d, axis) ==
    LET l == LayoutAt(d, f.layout)
        l0 == LayoutAt(d, start.layout)
    IN IF l.local[axis] THEN "done"
       ELSE IF l0.grid_space[axis] THEN "grid" ELSE "coeff"

\* (variant of require_local_dir: the walk stops only in coefficient space)
require_local_dir_coeff(f, start, d, axis) ==
    LET l == LayoutAt(d, f.layout)
        l0 == LayoutAt(d, start.layout)
    IN IF l.local[axis] /\ ~l.grid_space[axis] THEN "done"
       ELSE IF l0.grid_space[axis] THEN "coeff" ELSE "grid"

require_local_dir(f, start, d, axis) ==
    LET l == LayoutAt(d, f.layout)
        l0 == LayoutAt(d, start.layout)
    IN IF l.local[axis] THEN "done"
       ELSE IF l0.grid_space[axis] THEN "coeff" ELSE "grid"

\* set_scales(keep_data=True): the axis handed to require_coeff_space, or
\* NoRewind.  Scans the axes from the last one down.
\* (variant of set_scales_scan: the scales are not compared)
set_scales_scan_always(l, old, new, axis) ==
    IF axis < 0 THEN NoRewind
    ELSE IF ~l.grid_space[axis] THEN NoRewind
    ELSE axis

RECURSIVE set_scales_scan(_, _, _, _)
set_scales_scan(l, old, new, axis) ==
    IF axis < 0 THEN NoRewind
    ELSE IF ~l.grid_space[axis] THEN NoRewind
    ELSE IF old[axis] # new[axis] THEN axis
    ELSE set_scales_scan(l, old, new, axis - 1)

set_scales_axis(f, d, new) ==
    set_scales_scan(LayoutAt(d, f.layout), f.scales, new, d.dim - 1)

\* (variant of set_scales_tail: the data view is not rebuilt)
set_scales_tail_stale(f, d, new, keep) ==
    IF keep THEN [f EXCEPT !.scales = new]
    ELSE [f EXCEPT !.scales = new, !.data = FreshData(f.layout)]

\* set_scales after the rewind: metadata, new buffer, data view, copy back
set_scales_tail(f, d, new, keep) ==
    LET f1 == [f EXCEPT !.scales = new, !.data = FreshData(f.layout)]
        f2 == layout_setter(f1, d, f1.layout)
    IN IF keep /\ f2.shape = f.shape
       THEN [f2 EXCEPT !.data = f.data]
       ELSE f2

set_scales_raises(f, d, new, keep) ==
    keep /\ local_shape(LayoutAt(d, f.layout), new, d) # f.shape

LoopDir(o, f, h, d) ==
    CASE o.name = "require_layout" -> require_layout_dir(f, h.start, o.target)
      [] o.name = "require_grid_space" -> require_grid_space_dir(f, d, o.axis)
      [] o.name = "require_coeff_space" -> require_coeff_space_dir(f, d, o.axis)
      [] o.name = "require_local" -> require_local_dir(f, h.start, d, o.axis)
      [] o.name = "set_scales" ->
            IF o.axis = NoRewind THEN "done"
            ELSE require_coeff_space_dir(f, d, o.axis)
      [] OTHER -> "done"

\* ------------------------------------------------- operations on one field
NoOp(d) ==
    [name |-> "init", axis |-> None, target |-> 0, keep |-> FALSE,
     new |-> [a \in Axes(d) |-> 1], value |-> "zero"]

\* cap of the step counter of one call (no call of the chain takes as many)
MaxSteps == 4 * MaxDim + 2

Min(a, b) == IF a < b THEN a ELSE b
Max(a, b) == IF a > b THEN a ELSE b

\* round-trip monitor: a require_grid_space() called in the coefficient
\* layout, directly followed by a require_coeff_space()
NoRt == [phase |-> "none", data |-> FreshData(0)]

RtAtCall(o) ==
    IF o.name = "require_grid_space" /\ o.axis = None /\ field.layout = 0
    THEN [phase |-> "grid", data |-> field.data]
    ELSE IF o.name = "require_coeff_space" /\ o.axis = None /\ rt.phase = "grid"
    THEN [phase |-> "coeff", data |-> rt.data]
    ELSE NoRt

PencilUnchanged == UNCHANGED <<sys, pset, plog, pencils, mats, expr, res>>

\* enter a method that loops over transform steps
Enter(o) ==
    /\ pc = "idle"
    /\ op' = o
    /\ pc' = "loop"
    /\ exc' = "none"
    /\ hist' = [start |-> field, nsteps |-> 0]
    /\ rt' = RtAtCall(o)
    /\ UNCHANGED <<dom, field>>
    /\ PencilUnchanged

\* what is remembered of a finished call: its name
Finished(o) == [NoOp(dom) EXCEPT !.name = o.name]

\* a method that completes in one go, leaving the field as f
Whole(o, f, e) ==
    /\ pc = "idle"
    /\ op' = Finished(o)
    /\ pc' = "idle"
    /\ exc' = e
    /\ hist' = [start |-> f, nsteps |-> 0]
    /\ rt' = NoRt
    /\ field' = f
    /\ UNCHANGED dom
    /\ PencilUnchanged

call_require_layout ==
    \E L \in 0 .. NPaths(dom) :
        Enter([NoOp(dom) EXCEPT !.name = "require_layout", !.target = L])

call_require_grid_space ==
    \E axis \in Axes(dom) \cup {None} :
        Enter([NoOp(dom) EXCEPT !.name = "require_grid_space", !.axis = axis])

call_require_coeff_space ==
    \E axis \in Axes(dom) \cup {None} :
        Enter([NoOp(dom) EXCEPT !.name = "require_coeff_space", !.axis = axis])

call_require_local ==
    \E axis \in Axes(dom) :
        Enter([NoOp(dom) EXCEPT !.name = "require_local", !.axis = axis])

call_towards_grid_space ==
    Whole([NoOp(dom) EXCEPT !.name = "towards_grid_space"],
          towards_grid_space(field, dom),
          IF towards_raises(field, dom, "grid") THEN "IndexError" ELSE "none")

call_towards_coeff_space ==
    Whole([NoOp(dom) EXCEPT !.name = "towards_coeff_space"],
          towards_coeff_space(field, dom),
          IF towards_raises(field, dom, "coeff") THEN "IndexError" ELSE "none")

call_layout_setter ==
    \E L \in 0 .. NPaths(dom) :
        Whole([NoOp(dom) EXCEPT !.name = "layout_setter"],
              layout_setter(field, dom, L), "none")

\* Field.__setitem__(layout, data)
setitem(f, d, L, value) ==
    [layout_setter(f, d, L) EXCEPT
        !.data = Written(value, L)]

call_setitem ==
    \E L \in 0 .. NPaths(dom), value \in UserData :
        Whole([NoOp(dom) EXCEPT !.name = "setitem"],
              setitem(field, dom, L, value), "none")

\* Field.set_scales(scales, keep_data=keep)
call_set_scales ==
    \E new \in [Axes(dom) -> Scales], keep \in BOOLEAN :
        LET o == [NoOp(dom) EXCEPT !.name = "set_scales", !.new = new, !.keep = keep,
                      !.axis = IF keep THEN set_scales_axis(field, dom, new)
                               ELSE NoRewind]
        IN IF new = field.scales
           THEN Whole(o, field, "none")
           ELSE Enter(o)

\* one iteration of the running loop: one towards_* call
Step ==
    /\ pc = "loop"
    /\ LoopDir(op, field, hist, dom) # "done"
    /\ LET dir == LoopDir(op, field, hist, dom)
           raises == towards_raises(field, dom, dir)
       IN /\ field' = towards(field, dom, dir)
          /\ pc' = IF raises THEN "idle" ELSE "loop"
          /\ exc' = IF raises THEN "IndexError" ELSE "none"
          /\ op' = IF raises THEN Finished(op) ELSE op
          /\ hist' = IF raises THEN [start |-> field, nsteps |-> 0]
                     ELSE [hist EXCEPT !.nsteps = Min(@ + 1, MaxSteps)]
          /\ rt' = IF raises THEN NoRt ELSE rt
    /\ UNCHANGED dom
    /\ PencilUnchanged

\* the loop condition is false: the method finishes
Return ==
    /\ pc = "loop"
    /\ LoopDir(op, field, hist, dom) = "done"
    /\ pc' = "idle"
    /\ op' = Finished(op)
    /\ IF op.name = "set_scales"
       THEN /\ field' = set_scales_tail(field, dom, op.new, op.keep)
            /\ exc' = IF set_scales_raises(field, dom, op.new, op.keep)
                      THEN "ValueError" ELSE "none"
       ELSE UNCHANGED <<field, exc>>
    /\ hist' = [start |-> field', nsteps |-> 0]
    /\ rt' = IF rt.phase = "grid" THEN rt ELSE NoRt
    /\ UNCHANGED dom
    /\ PencilUnchanged

NoSystem == <<>>

InitField ==
    /\ dom \in Domains(MaxDim, {CoeffSize})
    /\ field = NewField(dom)
    /\ pc = "idle"
    /\ op = NoOp(dom)
    /\ exc = "none"
    /\ hist = [start |-> field, nsteps |-> 0]
    /\ rt = NoRt
    /\ sys = NoSystem
    /\ pset = NoSystem
    /\ plog = NoSystem
    /\ pencils = NoSystem
    /\ mats = NoSystem
    /\ expr = NoSystem
    /\ res = NoSystem

NextField ==
    \/ call_require_layout
    \/ call_require_grid_space
    \/ call_require_coeff_space
    \/ call_require_local
    \/ call_towards_grid_space
    \/ call_towards_coeff_space
    \/ call_layout_setter
    \/ call_setitem
    \/ call_set_scales
    \/ Step
    \/ Return

Spec == InitField /\ [][NextField]_vars

\* --------------------------------------------------------------- PencilSet
\* Whole calls of the looping Field methods, as PencilSet and the callers
\* of a system's fields make them.
RECURSIVE RunLoop(_, _, _, _, _)
RunLoop(o, f, h, d, fuel) ==
    LET dir == LoopDir(o, f, h, d) IN
    IF dir = "done" \/ fuel = 0 \/ towards_raises(f, d, dir)
    THEN f
    ELSE RunLoop(o, towards(f, d, dir), h, d, fuel - 1)

require_coeff_space(f, d, axis) ==
    RunLoop([NoOp(d) EXCEPT !.name = "require_coeff_space", !.axis = axis],
            f, [start |-> f, nsteps |-> 0], d, MaxSteps)

require_grid_space(f, d, axis) ==
    RunLoop([NoOp(d) EXCEPT !.name = "require_grid_space", !.axis = axis],
            f, [start |-> f, nsteps |-> 0], d, MaxSteps)

require_layout(f, d, L) ==
    RunLoop([NoOp(d) EXCEPT !.name = "require_layout", !.target = L],
            f, [start |-> f, nsteps |-> 0], d, MaxSteps)

require_local(f, d, axis) ==
    RunLoop([NoOp(d) EXCEPT !.name = "require_local", !.axis = axis],
            f, [start |-> f, nsteps |-> 0], d, MaxSteps)

\* Arrays are functions of the transverse index (one index for each axis
\* but the last) and of the index along the last axis.
LastAxis(d) == d.dim - 1

coeff_shape(d) == local_shape(coeff_layout(d), [a \in Axes(d) |-> 1], d)

TransIdx(d, shape) ==
    {t \in [0 .. (d.dim - 2) -> 0 .. MaxCoeff] : \A a \in DOMAIN t : t[a] < shape[a]}

\* array elements: the initial coefficients of field i, coefficients
\* written by the user, buffer entries written by the solver, zero
ZeroIdx(d) == [a \in 0 .. (d.dim - 2) |-> 0]
Zero(d) == <<0, 0, ZeroIdx(d), 0>>
InitArray(d, i) ==
    [t \in TransIdx(d, coeff_shape(d)) |->
        [k \in 0 .. (coeff_shape(d)[LastAxis(d)] - 1) |-> <<1, i, t, k>>]]
UserArray(d, i) ==
    [t \in TransIdx(d, coeff_shape(d)) |->
        [k \in 0 .. (coeff_shape(d)[LastAxis(d)] - 1) |-> <<2, i, t, k>>]]

\* the ndarray field.data of a field of a system (these fields are written
\* in the coefficient layout only); entries seen through forward steps are
\* not the entries written
data_view(f, d) ==
    IF f.data.ok /\ f.data.at = f.data.low
    THEN f.data.base
    ELSE [t \in TransIdx(d, f.shape) |->
            [k \in 0 .. (f.shape[LastAxis(d)] - 1) |-> <<4, f.data.at, t, k>>]]

\* PencilSet.__init__: the buffer, zero-filled
NewPencilSet(d, n_fields) ==
    LET shape == [coeff_shape(d) EXCEPT ![LastAxis(d)] = @ * n_fields] IN
    [stride |-> coeff_shape(d)[LastAxis(d)],
     shape |-> shape,
     data |-> [t \in TransIdx(d, shape) |->
                 [c \in 0 .. (shape[LastAxis(d)] - 1) |-> Zero(d)]]]

\* number of columns selected by [start::step] out of width columns
SliceCount(width, start, step) ==
    IF start >= width THEN 0 ELSE ((width - start - 1) \div step) + 1

\* np.copyto(dst, src) along the last axis: the extents are equal, or the
\* source has extent 1 and is broadcast
CopyRaises(dst_n, src_n) == dst_n # src_n /\ src_n # 1

\* (variants of the start and step of the slices: the step of the stored
\* stride, every field read back from column 0)
get_step_stride(S, ps) == ps.stride
set_start_zero(i) == 0

\* start and step of field i's slice of the buffer: self.data[..., start::stride]
get_start(i) == i
get_step(S, ps) == Len(S)
set_start(i) == i
set_step(S, ps) == Len(S)

\* np.copyto(self.data[..., start::step], field.data)
CopyIn(ps, d, start, step, arr, n) ==
    [ps EXCEPT !.data =
        [t \in DOMAIN ps.data |->
            [c \in DOMAIN ps.data[t] |->
                IF c >= start /\ (c - start) % step = 0
                THEN arr[t][IF n = 1 THEN 0 ELSE (c - start) \div step]
                ELSE ps.data[t][c]]]]

\* np.copyto(field.data, self.data[..., start::step])
CopyOut(ps, d, start, step, f) ==
    LET cnt == SliceCount(ps.shape[LastAxis(d)], start, step) IN
    [t \in TransIdx(d, f.shape) |->
        [k \in 0 .. (f.shape[LastAxis(d)] - 1) |->
            ps.data[t][IF cnt = 1 THEN start ELSE start + k * step]]]

\* PencilSet.get_system, fields i, i+1, ... of the system S
RECURSIVE get_system_from(_, _, _, _)
get_system_from(i, S, ps, d) ==
    IF i >= Len(S) THEN [sys |-> S, pset |-> ps, exc |-> "none"]
    ELSE LET start == get_start(i)
             step == get_step(S, ps)
             f == require_coeff_space(S[i + 1], d, None)
             S1 == [S EXCEPT ![i + 1] = f]
             n == f.shape[LastAxis(d)]
             cnt == SliceCount(ps.shape[LastAxis(d)], start, step)
         IN IF CopyRaises(cnt, n)
            THEN [sys |-> S1, pset |-> ps, exc |-> "ValueError"]
            ELSE get_system_from(i + 1, S1,
                                 CopyIn(ps, d, start, step, data_view(f, d), n), d)

get_system(S, ps, d) == get_system_from(0, S, ps, d)

\* PencilSet.set_system, fields i, i+1, ... of the system S
RECURSIVE set_system_from(_, _, _, _)
set_system_from(i, S, ps, d) ==
    IF i >= Len(S) THEN [sys |-> S, pset |-> ps, exc |-> "none"]
    ELSE LET start == set_start(i)
             step == set_step(S, ps)
             f == layout_setter(S[i + 1], d, 0)
             n == f.shape[LastAxis(d)]
             cnt == SliceCount(ps.shape[LastAxis(d)], start, step)
         IN IF CopyRaises(n, cnt)
            THEN [sys |-> [S EXCEPT ![i + 1] = f], pset |-> ps, exc |-> "ValueError"]
            ELSE set_system_from(i + 1,
                    [S EXCEPT ![i + 1] =
                        [f EXCEPT !.data = Written(CopyOut(ps, d, start, step, f), 0)]],
                    ps, d)

set_system(S, ps, d) == set_system_from(0, S, ps, d)

\* the coefficient data of every field of the system
CoeffData(S, d) ==
    [i \in 1 .. Len(S) |-> data_view(require_coeff_space(S[i], d, None), d)]

NoSnap == <<>>

FieldUnchanged == UNCHANGED <<field, pc, op, exc, hist, rt, pencils, mats, expr, res>>

\* ------------------------------------------------- pencils of a PencilSet
\* trans_shape = self.data.shape[:-1]
trans_shape(ps, d) == [a \in 0 .. (d.dim - 2) |-> ps.shape[a]]

\* np.prod(shape[:n])
RECURSIVE Prod(_, _)
Prod(shape, n) == IF n = 0 THEN 1 ELSE shape[n - 1] * Prod(shape, n - 1)

\* (variant of DivAt: the quotient is never taken)
DivAt_keep(p, shape, a, n) == p

\* the entry of div for pencil p once the loop over reversed(trans_shape)
\* has handled the axes n-1, n-2, ..., a:  div, mod = divmod(div, s)
RECURSIVE DivAt(_, _, _, _)
DivAt(p, shape, a, n) ==
    IF a >= n THEN p ELSE DivAt(p, shape, a + 1, n) \div shape[a]

\* the transverse indices, one tuple for each pencil, in the order built
index_list(ps, d) ==
    IF d.dim = 1
    THEN << <<>> >>
    ELSE LET shape == trans_shape(ps, d)
             n == d.dim - 1
         IN [q \in 1 .. Prod(shape, n) |->
                [a \in 0 .. (n - 1) |-> DivAt(q - 1, shape, a + 1, n) % shape[a]]]

\* first global index of this process's block of the coefficient layout
\* (the process holding the second block of every distributed axis)
coeff_start(d) ==
    [a \in Axes(d) |-> IF coeff_layout(d).local[a] THEN 0 ELSE coeff_shape(d)[a]]

\* basis.trans_diff(index), kept symbolic
trans_diff(n, index) == <<"trans_diff", n, index>>

\* (variant of NewPencil: trans_diff of the local index)
NewPencil_local(pencil_index, d) ==
    [slice |-> [a \in Axes(d) |->
                  IF a < d.dim - 1
                  THEN [start |-> pencil_index[a], stop |-> pencil_index[a] + 1]
                  ELSE [start |-> None, stop |-> None]],
     d_trans |-> [n \in 0 .. (d.dim - 2) |-> trans_diff(n, pencil_index[n])]]

\* slices and d_trans of the pencil at pencil_index; Pencil.__init__
NewPencil(pencil_index, d) ==
    [slice |-> [a \in Axes(d) |->
                  IF a < d.dim - 1
                  THEN [start |-> pencil_index[a], stop |-> pencil_index[a] + 1]
                  ELSE [start |-> None, stop |-> None]],
     d_trans |-> [n \in 0 .. (d.dim - 2) |->
                    trans_diff(n, coeff_start(d)[n] + pencil_index[n])]]

construct_pencils(ps, d) ==
    LET il == index_list(ps, d) IN [q \in DOMAIN il |-> NewPencil(il[q], d)]

\* k is selected by the slice sl along an axis of extent n
Selected(sl, n, k) ==
    /\ k >= 0
    /\ k < n
    /\ sl.start # None => (k >= sl.start /\ k < sl.stop)

\* the entries of the buffer seen by a pencil: set_data[slice]
pencil_cells(pn, ps, d) ==
    {x \in (DOMAIN ps.data) \X (0 .. (ps.shape[LastAxis(d)] - 1)) :
        /\ \A a \in 0 .. (d.dim - 2) : Selected(pn.slice[a], ps.shape[a], x[1][a])
        /\ Selected(pn.slice[LastAxis(d)], ps.shape[LastAxis(d)], x[2])}

\* plog: the last call made on the system, whether a set_system came
\* directly after a get_system, and the coefficient data the fields had
\* before that get_system
p_get_system ==
    LET r == get_system(sys, pset, dom) IN
    /\ sys' = r.sys
    /\ pset' = r.pset
    /\ plog' = [last |-> "get_system", after_get |-> FALSE, exc |-> r.exc,
                snap |-> CoeffData(sys, dom),
                moved |-> \E i \in 1 .. Len(sys) : sys[i].layout # 0]
    /\ UNCHANGED dom
    /\ FieldUnchanged

p_set_system ==
    LET r == set_system(sys, pset, dom) IN
    /\ sys' = r.sys
    /\ pset' = r.pset
    /\ plog' = [last |-> "set_system", after_get |-> plog.last = "get_system",
                exc |-> r.exc,
                snap |-> IF plog.last = "get_system" THEN plog.snap ELSE NoSnap,
                moved |-> plog.last = "get_system" /\ plog.moved]
    /\ UNCHANGED dom
    /\ FieldUnchanged

Other ==
    plog' = [last |-> "other", after_get |-> FALSE, exc |-> "none",
             snap |-> NoSnap, moved |-> FALSE]

\* a field of the system is brought to grid space by its user
p_require_grid_space ==
    \E i \in 1 .. Len(sys) :
        /\ sys' = [sys EXCEPT ![i] = require_grid_space(@, dom, None)]
        /\ Other
        /\ UNCHANGED <<dom, pset>>
        /\ FieldUnchanged

\* the user writes coefficients into a field of the system: field['c'] = data
p_setitem ==
    \E i \in 1 .. Len(sys) :
        /\ sys' = [sys EXCEPT ![i] = setitem(@, dom, 0, UserArray(dom, i - 1))]
        /\ Other
        /\ UNCHANGED <<dom, pset>>
        /\ FieldUnchanged

\* the solver writes the pencils' data, i.e. the buffer
p_solve ==
    /\ pset' = [pset EXCEPT !.data =
                    [t \in DOMAIN pset.data |->
                        [c \in DOMAIN pset.data[t] |-> <<3, 0, t, c>>]]]
    /\ Other
    /\ UNCHANGED <<dom, sys>>
    /\ FieldUnchanged

InitPencil ==
    /\ dom \in Domains(MaxPencilDim, 1 .. MaxCoeff)
    /\ \E n_fields \in 1 .. MaxFields :
          /\ sys = [i \in 1 .. n_fields |->
                      setitem(NewField(dom), dom, 0, InitArray(dom, i - 1))]
          /\ pset = NewPencilSet(dom, n_fields)
    /\ plog = [last |-> "other", after_get |-> FALSE, exc |-> "none",
               snap |-> NoSnap, moved |-> FALSE]
    /\ field = NewField(dom)
    /\ pc = "idle"
    /\ op = NoOp(dom)
    /\ exc = "none"
    /\ hist = [start |-> field, nsteps |-> 0]
    /\ rt = NoRt
    /\ pencils = construct_pencils(pset, dom)
    /\ mats = NoSystem
    /\ expr = NoSystem
    /\ res = NoSystem

NextPencil ==
    \/ p_get_system
    \/ p_set_system
    \/ p_require_grid_space
    \/ p_setitem
    \/ p_solve

SpecPencil == InitPencil /\ [][NextPencil]_vars

\* -------------------------------------------------- Pencil.build_matrices
\* Matrices are functions of the row and the column, both counted from 0.
Idx(n) == 0 .. (n - 1)
ZeroMat(n) == [r \in Idx(n) |-> [c \in Idx(n) |-> 0]]
Eye(n) == [r \in Idx(n) |-> [c \in Idx(n) |-> IF r = c THEN 1 ELSE 0]]
Unit(n, i, j, v) == [r \in Idx(n) |-> [c \in Idx(n) |-> IF r = i /\ c = j THEN v ELSE 0]]
Scale(v, A) == [r \in DOMAIN A |-> [c \in DOMAIN A[r] |-> v * A[r][c]]]
MatAdd(A, B) == [r \in DOMAIN A |-> [c \in DOMAIN A[r] |-> A[r][c] + B[r][c]]]

RECURSIVE DotFrom(_, _, _, _, _)
DotFrom(A, B, r, c, k) ==
    IF k < 0 THEN 0 ELSE A[r][k] * B[k][c] + DotFrom(A, B, r, c, k - 1)

MatMul(A, B, n) == [r \in Idx(n) |-> [c \in Idx(n) |-> DotFrom(A, B, r, c, n - 1)]]

\* sparse.kron(A, B): A is n x n, B is m x m
Kron(A, n, B, m) ==
    [r \in Idx(n * m) |-> [c \in Idx(n * m) |->
        A[r \div m][c \div m] * B[r % m][c % m]]]

\* np.any(A)
AnyNonzero(A) == \E r \in DOMAIN A : \E c \in DOMAIN A[r] : A[r][c] # 0

\* A.nonzero()[0]: the rows of A with a nonzero entry
NonzeroRows(A) == {r \in DOMAIN A : \E c \in DOMAIN A[r] : A[r][c] # 0}

\* The basis of the last axis is an input of build_matrices: a tau basis
\* with N coefficients whose boundary matrices fill the last row.
Sign(j) == IF j % 2 = 0 THEN 1 ELSE -1
Basis(N) ==
    [coeff_size |-> N,
     Pre   |-> [r \in Idx(N) |-> [c \in Idx(N) |->
                  IF c = r THEN 1 ELSE IF c = r + 2 THEN -1 ELSE 0]],
     Mult0 |-> Eye(N),
     Diff  |-> [r \in Idx(N) |-> [c \in Idx(N) |->
                  IF c > r /\ (c - r) % 2 = 1 THEN 2 * c ELSE 0]],
     Left  |-> [r \in Idx(N) |-> [c \in Idx(N) |-> IF r = N - 1 THEN Sign(c) ELSE 0]],
     Right |-> [r \in Idx(N) |-> [c \in Idx(N) |-> IF r = N - 1 THEN 1 ELSE 0]],
     Int   |-> [r \in Idx(N) |-> [c \in Idx(N) |->
                  IF r = N - 1 /\ c % 2 = 0 THEN 2 ELSE 0]],
     bc_vector |-> [r \in Idx(N) |-> IF r = N - 1 THEN 1 ELSE 0]]

\* problem.order: the problems built are first-order systems
Order == 1

\* The problem is an input of build_matrices: its matrices at the pencil's
\* d_trans.  Coefficients 0 or 1 scale fixed patterns: m and l the terms
\* of M and L, ml and ll the left conditions, r the right conditions and i
\* the integral conditions.
Coeffs == {0, 1}
Problems(size) ==
    {[size |-> size,
      M0 |-> Scale(k.m, Eye(size)),
      M1 |-> Unit(size, 0, size - 1, k.m),
      L0 |-> Scale(k.l, Eye(size)),
      L1 |-> Unit(size, size - 1, 0, k.l),
      ML |-> Unit(size, size - 1, 0, k.ml),
      MR |-> Unit(size, size - 1, size - 1, k.r),
      MI |-> Unit(size, 0, 0, k.i),
      LL |-> Unit(size, 0, 0, k.ll),
      LR |-> Unit(size, size - 1, size - 1, k.r),
      LI |-> Unit(size, 0, size - 1, k.i),
      b  |-> [r \in Idx(size) |-> r + 1]] :
        k \in [m : Coeffs, l : Coeffs, ml : Coeffs, ll : Coeffs,
               r : Coeffs, i : Coeffs]}

\* M = M + kron(Pre_i, M0[i](D)) + kron(Diff_i, M1[i](D)), for i in range(order)
pde_matrix(basis, size, A0, A1) ==
    LET N == basis.coeff_size
        Pre_i == MatMul(basis.Pre, basis.Mult0, N)
        Diff_i == MatMul(MatMul(basis.Pre, basis.Mult0, N), basis.Diff, N)
    IN MatAdd(MatAdd(ZeroMat(N * size), Kron(Pre_i, N, A0, size)),
              Kron(Diff_i, N, A1, size))

\* Mb = Mb + kron(basis.Left, ML) ..., each term only if np.any(...)
bc_matrix(basis, size, AL, AR, AI) ==
    LET N == basis.coeff_size
        Z == ZeroMat(N * size)
        t1 == IF AnyNonzero(AL) THEN MatAdd(Z, Kron(basis.Left, N, AL, size)) ELSE Z
        t2 == IF AnyNonzero(AR) THEN MatAdd(t1, Kron(basis.Right, N, AR, size)) ELSE t1
    IN IF AnyNonzero(AI) THEN MatAdd(t2, Kron(basis.Int, N, AI, size)) ELSE t2

\* (variant of bc_rows_of: the rows of Mb alone)
bc_rows_of_first(Mb, Lb) == NonzeroRows(Mb)

\* rows = set(Mb_rows).union(set(Lb_rows))
bc_rows_of(Mb, Lb) == NonzeroRows(Mb) \cup NonzeroRows(Lb)

\* (variant of clear_bc: every row is cleared)
clear_bc_all(n, rows) == [r \in Idx(n) |-> [c \in Idx(n) |-> 0]]

\* clear_bc: the identity with the boundary rows set to zero
clear_bc(n, rows) ==
    [r \in Idx(n) |-> [c \in Idx(n) |-> IF r = c /\ r \notin rows THEN 1 ELSE 0]]

\* A matrix stored with a sparsity pattern: the positions stored and the
\* value at each of them.
\* zeros_with_pattern(M, L): the positions stored in M or in L
zeros_with_pattern(A, B) ==
    {rc \in (DOMAIN A) \X (DOMAIN A) : A[rc[1]][rc[2]] # 0 \/ B[rc[1]][rc[2]] # 0}

\* expand_pattern(A, LHS): the entries of A that LHS stores, and zeros at
\* the other positions of LHS
expand_pattern(A, LHS) ==
    [pattern |-> LHS, data |-> [rc \in LHS |-> A[rc[1]][rc[2]]]]

\* the values of a stored matrix
Dense(S, n) ==
    [r \in Idx(n) |-> [c \in Idx(n) |->
        IF <<r, c>> \in S.pattern THEN S.data[<<r, c>>] ELSE 0]]

\* the orders in which the elements of a set can be iterated
Orderings(S) ==
    {o \in [1 .. Cardinality(S) -> S] : \A i, j \in DOMAIN o : i # j => o[i] # o[j]}

\* Mb and Lb
boundary_matrices(problem, basis) ==
    [Mb |-> bc_matrix(basis, problem.size, problem.ML, problem.MR, problem.MI),
     Lb |-> bc_matrix(basis, problem.size, problem.LL, problem.LR, problem.LI)]

boundary_rows(problem, basis) ==
    LET bm == boundary_matrices(problem, basis) IN bc_rows_of(bm.Mb, bm.Lb)

\* (variant of bc_f_of: the rows are taken in the opposite order)
bc_f_of_reversed(b, rows_iter) ==
    [k \in DOMAIN rows_iter |-> b[rows_iter[Len(rows_iter) + 1 - k]]]

\* self.bc_f = [b[r] for r in rows]
bc_f_of(b, rows_iter) == [k \in DOMAIN rows_iter |-> b[rows_iter[k]]]

\* rows_iter is the order in which the set `rows` is iterated
build_matrices(problem, basis, rows_iter) ==
    LET size == problem.size * basis.coeff_size
        M == pde_matrix(basis, problem.size, problem.M0, problem.M1)
        L == pde_matrix(basis, problem.size, problem.L0, problem.L1)
        Mb == boundary_matrices(problem, basis).Mb
        Lb == boundary_matrices(problem, basis).Lb
        rows == bc_rows_of(Mb, Lb)
        clear == clear_bc(size, rows)
        M2 == MatAdd(MatMul(clear, M, size), Mb)
        L2 == MatAdd(MatMul(clear, L, size), Lb)
        LHS == zeros_with_pattern(M2, L2)
        b == [r \in Idx(size) |->
                basis.bc_vector[r \div problem.size] * problem.b[r % problem.size]]
    IN [size |-> size,
        pde_M |-> M, pde_L |-> L, Mb |-> Mb, Lb |-> Lb,
        sum_M |-> M2, sum_L |-> L2,
        LHS |-> LHS,
        M |-> Dense(expand_pattern(M2, LHS), size),
        L |-> Dense(expand_pattern(L2, LHS), size),
        bc_rows |-> rows_iter,
        bc_f |-> bc_f_of(b, rows_iter)]

\* number of fields of the system the buffer was allocated for
n_fields_of(ps, d) == ps.shape[LastAxis(d)] \div ps.stride

\* the matrices of one pencil of the set are built (once for each pencil;
\* the build of one of them is followed)
p_build_matrices ==
    /\ mats = NoSystem
    /\ pencils # <<>>
    /\ \E problem \in Problems(n_fields_of(pset, dom)) :
          \E rows_iter \in Orderings(boundary_rows(problem, Basis(pset.stride))) :
              mats' = build_matrices(problem, Basis(pset.stride), rows_iter)
    /\ UNCHANGED <<dom, field, pc, op, exc, hist, rt, sys, pset, plog,
                   pencils, expr, res>>

InitBuild ==
    /\ dom \in Domains(MaxPencilDim, 1 .. MaxCoeff)
    /\ \E n_fields \in 1 .. MaxFields : pset = NewPencilSet(dom, n_fields)
    /\ pencils = construct_pencils(pset, dom)
    /\ mats = NoSystem
    /\ sys = NoSystem
    /\ plog = NoSystem
    /\ field = NewField(dom)
    /\ pc = "idle"
    /\ op = NoOp(dom)
    /\ exc = "none"
    /\ hist = [start |-> field, nsteps |-> 0]
    /\ rt = NoRt
    /\ expr = NoSystem
    /\ res = NoSystem

NextBuild == p_build_matrices

SpecBuild == InitBuild /\ [][NextBuild]_vars

\* ------------------------------------------------------- expression trees
\* An expression is a Python number, a leaf (a field: named, or an unnamed
\* constant holding a value), a CastNumber node, a linear operator node or
\* a nonlinear operator node.  val is the number or the value of a constant,
\* and for an operator of one space the axis of that space; basis is the
\* output basis of a Convert.
ExprDim == 2
ExprAxes == 0 .. (ExprDim - 1)
NoBasis == "None"

Number(n) == [tag |-> "number", name |-> "", val |-> n, basis |-> "", args |-> <<>>]
NamedField(name) == [tag |-> "field", name |-> name, val |-> 0, basis |-> "", args |-> <<>>]
ConstantField(n) == [tag |-> "field", name |-> "", val |-> n, basis |-> "", args |-> <<>>]
CastNumber(n) == [tag |-> "cast", name |-> "Cast", val |-> n, basis |-> "", args |-> <<>>]
LinNode(name, axis, basis, operand) ==
    [tag |-> "lin", name |-> name, val |-> axis, basis |-> basis, args |-> <<operand>>]
NonNode(name, args) ==
    [tag |-> "non", name |-> name, val |-> 0, basis |-> "", args |-> args]

\* no subclass matched the arguments
DispatchFailed == [tag |-> "fail", name |-> "", val |-> 0, basis |-> "", args |-> <<>>]

\* the fields of the problem: u varies along both axes, w along axis 0
\* only, c is a constant parameter
LeafBases(name) ==
    IF name = "u" THEN [a \in ExprAxes |-> "T"]
    ELSE IF name = "w" THEN [a \in ExprAxes |-> IF a = 0 THEN "T" ELSE NoBasis]
    ELSE [a \in ExprAxes |-> NoBasis]

Leaves == {NamedField("u"), NamedField("w"), NamedField("c")}

IsNumber(e) == e.tag = "number"
IsOperand(e) == e.tag \in {"field", "cast", "lin", "non", "add", "mul"}
IsLeaf(e) == e.tag = "field"

\* operand.bases, as each node's _build_bases makes them
RECURSIVE bases(_)
bases(e) ==
    IF e.tag = "field" THEN LeafBases(e.name)
    ELSE IF e.tag = "lin"
    THEN LET b == bases(e.args[1]) IN
         IF e.name = "Convert" THEN [b EXCEPT ![e.val] = e.basis]
         ELSE IF e.name = "Interpolate" THEN [b EXCEPT ![e.val] = NoBasis]
         ELSE b
    ELSE IF e.tag = "non"
    THEN IF e.name = "GeneralFunction"
         THEN [a \in ExprAxes |-> "T"]
         ELSE bases(e.args[1])
    ELSE IF e.tag \in {"add", "mul"}
    THEN [a \in ExprAxes |->
            IF \E i \in DOMAIN e.args : IsOperand(e.args[i]) /\ bases(e.args[i])[a] # NoBasis
            THEN bases(e.args[CHOOSE i \in DOMAIN e.args :
                                 /\ IsOperand(e.args[i])
                                 /\ bases(e.args[i])[a] # NoBasis
                                 /\ \A j \in DOMAIN e.args :
                                       (IsOperand(e.args[j]) /\ bases(e.args[j])[a] # NoBasis)
                                           => i <= j])[a]
            ELSE NoBasis]
    ELSE [a \in ExprAxes |-> NoBasis]

get_basis(e, axis) == bases(e)[axis]

\* --- construction: the dispatch over the subclasses and their __new__
\* Differentiate(operand, space): DifferentiateConstant for a number or an
\* operand without a basis along the space, else the subclass of the basis
Differentiate(operand, axis) ==
    IF IsNumber(operand) THEN Number(0)
    ELSE IF ~IsOperand(operand) THEN DispatchFailed
    ELSE IF get_basis(operand, axis) = NoBasis THEN Number(0)
    ELSE LinNode("Differentiate", axis, "", operand)

\* Interpolate(operand, space, position): InterpolateConstant returns the operand
Interpolate(operand, axis) ==
    IF IsNumber(operand) THEN operand
    ELSE IF ~IsOperand(operand) THEN DispatchFailed
    ELSE IF get_basis(operand, axis) = NoBasis THEN operand
    ELSE LinNode("Interpolate", axis, "", operand)

\* TimeDerivative.__new__
TimeDerivative(arg) ==
    IF arg.tag \in {"number", "cast"} THEN Number(0)
    ELSE IF ~IsOperand(arg) THEN DispatchFailed
    ELSE LinNode("TimeDerivative", 0, "", arg)

\* the basis types: "S" has no constant mode (const is None)
BasisTypes == {"T", "U", "S"}
HasConst(basis) == basis \in {"T", "U"}

\* the basis-typed subclasses of Convert: (input_basis_type, output_basis_type)
ConvertVariants == {v \in BasisTypes \X BasisTypes : v[1] # v[2]}

\* (variant of ConvertSame_check: the basis is looked up whatever its space)
ConvertSame_check_any(operand, axis, output_basis) ==
    /\ IsOperand(operand)
    /\ \E a \in ExprAxes : bases(operand)[a] = output_basis

\* ConvertSame._check_args: output_basis in operand.bases, where a basis
\* is an object of one space
ConvertSame_check(operand, axis, output_basis) ==
    /\ IsOperand(operand)
    /\ \E a \in ExprAxes : a = axis /\ bases(operand)[a] = output_basis

\* ConvertConstant._check_args
ConvertConstant_check(operand, axis, output_basis) ==
    /\ HasConst(output_basis)
    /\ \/ IsNumber(operand)
       \/ IsOperand(operand) /\ get_basis(operand, axis) = NoBasis

\* Convert._check_args of the subclass v; None is an instance of no type
Convert_check(v, operand, axis, output_basis) ==
    /\ IsOperand(operand)
    /\ get_basis(operand, axis) # output_basis
    /\ get_basis(operand, axis) = v[1]
    /\ output_basis = v[2]

\* the subclasses whose _check_args accepts the arguments
ConvertMatches(operand, axis, output_basis) ==
    {n \in {<<"ConvertSame", "">>} : ConvertSame_check(operand, axis, output_basis)}
    \cup {n \in {<<"ConvertConstant", "">>} :
              ConvertConstant_check(operand, axis, output_basis)}
    \cup {v \in ConvertVariants : Convert_check(v, operand, axis, output_basis)}

\* Convert(operand, space, output_basis): ConvertSame returns the operand,
\* ConvertConstant and the subclass of the bases build a node; over a number
\* no node is built (a number has no bases)
Convert(operand, axis, output_basis) ==
    IF ~IsOperand(operand) THEN DispatchFailed
    ELSE IF ConvertMatches(operand, axis, output_basis) = {} THEN DispatchFailed
    ELSE IF ConvertSame_check(operand, axis, output_basis) THEN operand
    ELSE LinNode("Convert", axis, output_basis, operand)

\* Operand.cast of the arguments of Power: a number becomes an unnamed
\* constant holding it
Cast(x) == IF IsNumber(x) THEN ConstantField(x.val) ELSE x

\* (variant of arg1_constant: constant if some axis has no basis)
arg1_constant_some(arg1) == \E a \in ExprAxes : bases(arg1)[a] = NoBasis

\* Power._check_args: arg1_constant = all(b is None for b in args[1].bases)
arg1_constant(arg1) == \A a \in ExprAxes : bases(arg1)[a] = NoBasis

\* (variant of PowerFieldConstant_new: no simplification for 0 and 1)
PowerFieldConstant_new_node(arg0, arg1) == NonNode("Pow", <<arg0, arg1>>)

\* PowerFieldConstant.__new__
PowerFieldConstant_new(arg0, arg1) ==
    IF arg1.name = "" /\ arg1.val = 0 THEN Number(1)
    ELSE IF arg1.name = "" /\ arg1.val = 1 THEN arg0
    ELSE NonNode("Pow", <<arg0, arg1>>)

\* Power(arg0, arg1): _preprocess_args, then the dispatch to PowerFieldConstant
Power(x, y) ==
    LET arg0 == Cast(x)
        arg1 == Cast(y)
    IN IF IsOperand(arg0) /\ IsOperand(arg1) /\ arg1_constant(arg1)
       THEN PowerFieldConstant_new(arg0, arg1)
       ELSE DispatchFailed

\* UnaryGridFunction(func, arg): UnaryGridFunctionField for a field
UnaryGridFunction(func, arg) ==
    IF IsOperand(arg) THEN NonNode(func, <<arg>>) ELSE DispatchFailed

\* GeneralFunction(domain, layout, func, args): not constant along any axis
GeneralFunction(args) == NonNode("GeneralFunction", args)

\* --- arithmetic: sums and products are flattened; numbers are combined
\* and 0 is dropped from a sum
AddNode(args) == [tag |-> "add", name |-> "Add", val |-> 0, basis |-> "", args |-> args]
MulNode(args) == [tag |-> "mul", name |-> "Multiply", val |-> 0, basis |-> "", args |-> args]

Terms(x) == IF x.tag = "add" THEN x.args ELSE <<x>>
Factors(x) == IF x.tag = "mul" THEN x.args ELSE <<x>>

\* a + b
Add(a, b) ==
    IF IsNumber(a) /\ IsNumber(b) THEN Number(a.val + b.val)
    ELSE IF a = Number(0) THEN b
    ELSE IF b = Number(0) THEN a
    ELSE AddNode(Terms(a) \o Terms(b))

\* a * b
Multiply(a, b) ==
    IF IsNumber(a) /\ IsNumber(b) THEN Number(a.val * b.val)
    ELSE MulNode(Factors(a) \o Factors(b))

\* sum(terms) and np.prod(factors) of the first n entries
RECURSIVE SumOf(_, _)
SumOf(terms, n) == IF n = 0 THEN Number(0) ELSE Add(SumOf(terms, n - 1), terms[n])

RECURSIVE ProdOf(_, _)
ProdOf(factors, n) ==
    IF n = 1 THEN factors[1] ELSE Multiply(ProdOf(factors, n - 1), factors[n])

\* an exception raised inside a symbolic call
Raised(name) == [tag |-> "fail", name |-> name, val |-> 0, basis |-> "", args |-> <<>>]

\* UnaryGridFunction.supported: the names of the ufuncs
Supported ==
    {"absolute", "sign", "conjugate", "exp", "exp2", "log", "log2", "log10",
     "sqrt", "square", "sin", "cos", "tan", "arcsin", "arccos", "arctan",
     "sinh", "cosh", "tanh", "arcsinh", "arccosh", "arctanh"}

\* the keys of diff_map in UnaryGridFunction.sym_diff
diff_map_keys ==
    {"absolute", "sign", "exp", "exp2", "log", "log2", "log10",
     "sqrt", "square", "sin", "cos", "tan", "arcsin", "arccos", "arctan",
     "sinh", "cosh", "tanh", "arcsinh", "arccosh", "arctanh"}

\* diff_map[func](arg): the closed form of the derivative, kept by name
diff_map(func, arg) ==
    IF func = "sign" THEN Number(0)
    ELSE [tag |-> "non", name |-> "diff_map", val |-> 0, basis |-> func, args |-> <<arg>>]

\* UnaryGridFunction.sym_diff, given arg.sym_diff(var)
sym_diff_unary(e, arg_diff) ==
    IF arg_diff.tag = "fail" THEN arg_diff
    ELSE IF e.name \notin diff_map_keys THEN Raised("KeyError")
    ELSE Multiply(diff_map(e.name, e.args[1]), arg_diff)

\* self.base(*args) with the operand replaced
new_operand(e, operand) ==
    IF e.name = "Differentiate" THEN Differentiate(operand, e.val)
    ELSE IF e.name = "Interpolate" THEN Interpolate(operand, e.val)
    ELSE IF e.name = "TimeDerivative" THEN TimeDerivative(operand)
    ELSE Convert(operand, e.val, e.basis)

\* --- queries.  vars is a set of leaves and a set of operator classes.
NoVars == [leaves |-> {}, ops |-> {}]

\* Data.has, and for an operator: its class or one of its arguments
RECURSIVE has(_, _)
has(e, V) ==
    IF e.tag = "field" THEN e \in V.leaves
    ELSE IF e.tag \in {"lin", "non", "add", "mul"}
    THEN \/ e.name \in V.ops
         \/ \E i \in DOMAIN e.args : has(e.args[i], V)
    ELSE FALSE

\* (variant of split_nonlinear: always the part without the variables)
split_nonlinear_rest(e, V) == <<Number(0), e>>

\* NonlinearOperator.split
split_nonlinear(e, V) == IF has(e, V) THEN <<e, Number(0)>> ELSE <<Number(0), e>>

\* Data.split, CastNumber.split, LinearOperator.split, Convert.split
RECURSIVE split(_, _)
split(e, V) ==
    IF e.tag = "field"
    THEN IF e \in V.leaves THEN <<e, Number(0)>> ELSE <<Number(0), e>>
    ELSE IF e.tag = "cast" THEN <<Number(0), Number(e.val)>>
    ELSE IF e.tag = "non" THEN split_nonlinear(e, V)
    ELSE IF e.name = "Convert" THEN split(e.args[1], V)
    ELSE IF e.name \in V.ops THEN <<e, Number(0)>>
    ELSE LET sp == split(e.args[1], V)
         IN <<new_operand(e, sp[1]), new_operand(e, sp[2])>>

\* (variant of require_linearity_leaf: a leaf never raises)
require_linearity_leaf_ok(e, V) == "none"

\* Operand.require_linearity of a leaf
require_linearity_leaf(e, V) ==
    IF e \in V.leaves THEN "none" ELSE "NonlinearOperatorError"

\* LinearOperator / NonlinearOperator / CastNumber .require_linearity
RECURSIVE require_linearity(_, _)
require_linearity(e, V) ==
    IF e.tag = "field" THEN require_linearity_leaf(e, V)
    ELSE IF e.tag = "lin" THEN require_linearity(e.args[1], V)
    ELSE "NonlinearOperatorError"

\* (variant of sym_diff_leaf: the derivative of every leaf is 1)
sym_diff_leaf_one(e, var) == Number(1)

\* Data.sym_diff
sym_diff_leaf(e, var) == IF e = var THEN Number(1) ELSE Number(0)

\* CastNumber.sym_diff, LinearOperator.sym_diff, Convert.sym_diff
RECURSIVE sym_diff(_, _)
sym_diff(e, var) ==
    IF e.tag = "field" THEN sym_diff_leaf(e, var)
    ELSE IF e.tag = "cast" THEN Number(0)
    ELSE IF e.tag = "non" /\ e.name \in Supported
    THEN sym_diff_unary(e, sym_diff(e.args[1], var))
    ELSE IF e.name = "Convert" THEN sym_diff(e.args[1], var)
    ELSE LET d == sym_diff(e.args[1], var)
         IN IF d.tag = "fail" THEN d ELSE new_operand(e, d)

\* --- replace: Data.replace, CastNumber.replace, Convert.replace; another
\* operator is replaced when it is `old`, else rebuilt over its replaced
\* arguments
\* (variant of Convert_delegate: the conversion is applied to the result)
Convert_delegate_node(e, operand_result) == new_operand(e, operand_result)

\* Convert.replace / Convert.expand: return self.operand.<method>(...)
Convert_delegate(e, operand_result) == operand_result

RECURSIVE replace(_, _, _)
replace(e, old, new) ==
    IF e.tag = "number" THEN e
    ELSE IF e.tag = "field" THEN IF e = old THEN new ELSE e
    ELSE IF e.tag = "cast" THEN Number(e.val)
    ELSE IF e.tag = "lin" /\ e.name = "Convert"
    THEN Convert_delegate(e, replace(e.args[1], old, new))
    ELSE IF e = old THEN new
    ELSE IF e.tag = "lin" THEN new_operand(e, replace(e.args[1], old, new))
    ELSE [e EXCEPT !.args = [i \in DOMAIN e.args |-> replace(e.args[i], old, new)]]

\* --- expand
\* TimeDerivative._expand_multiply: partial_diff(i), the product with the
\* i-th factor under the time derivative
partial_diff(e, args, i) ==
    ProdOf([j \in DOMAIN args |-> IF j = i THEN new_operand(e, args[j]) ELSE args[j]],
           Len(args))

\* the sum of partial_diff(i) over the factors
product_rule(e, args) ==
    SumOf([i \in DOMAIN args |-> partial_diff(e, args, i)], Len(args))

\* (variant of TimeDerivative_expand_linop: no commuting, as the default
\* LinearOperator._expand_linop)
expand_linop_default(e, operand, inner) == new_operand(e, operand)

\* TimeDerivative._expand_linop, given inner =
\* self.new_operand(operand.operand).expand(*vars)
TimeDerivative_expand_linop(e, operand, inner) ==
    IF operand.name = "TimeDerivative" THEN new_operand(e, operand)
    ELSE IF inner.tag = "fail" THEN inner
    ELSE new_operand(operand, inner)

\* the first exception among expanded arguments, if any
FirstFailed(xs) ==
    IF \E i \in DOMAIN xs : xs[i].tag = "fail"
    THEN xs[CHOOSE i \in DOMAIN xs :
                /\ xs[i].tag = "fail"
                /\ \A j \in DOMAIN xs : xs[j].tag = "fail" => i <= j]
    ELSE Number(0)

\* Data.expand, CastNumber.expand, NonlinearOperator.expand,
\* LinearOperator.expand, Convert.expand; a sum expands its terms and a
\* product its factors, distributing over a sum among them.  A number has
\* no expand method.
RECURSIVE expand(_, _)
expand(e, V) ==
    IF e.tag = "number" THEN Raised("AttributeError")
    ELSE IF e.tag \in {"field", "non", "fail"} THEN e
    ELSE IF e.tag = "cast" THEN Number(e.val)
    ELSE IF e.tag = "lin" /\ e.name = "Convert"
    THEN Convert_delegate(e, expand(e.args[1], V))
    ELSE IF ~has(e, V) THEN e
    ELSE IF e.tag = "lin"
    THEN LET operand == expand(e.args[1], V) IN
         IF operand.tag = "fail" THEN operand
         ELSE IF operand.tag = "lin"
         THEN IF e.name = "TimeDerivative"
              THEN TimeDerivative_expand_linop(e, operand,
                       expand(new_operand(e, operand.args[1]), V))
              ELSE new_operand(e, operand)
         ELSE IF operand.tag = "add"
         THEN expand(SumOf([i \in DOMAIN operand.args |-> new_operand(e, operand.args[i])],
                           Len(operand.args)), V)
         ELSE IF operand.tag = "mul" /\ e.name = "TimeDerivative"
         THEN expand(product_rule(e, operand.args), V)
         ELSE new_operand(e, operand)
    ELSE LET xs == [i \in DOMAIN e.args |->
                       IF IsOperand(e.args[i]) THEN expand(e.args[i], V) ELSE e.args[i]]
             n == Len(e.args)
         IN IF FirstFailed(xs).tag = "fail" THEN FirstFailed(xs)
            ELSE IF e.tag = "add" THEN SumOf(xs, n)
            ELSE IF \E i \in DOMAIN xs : xs[i].tag = "add" /\ has(xs[i], V)
            THEN LET i == CHOOSE k \in DOMAIN xs :
                              /\ xs[k].tag = "add" /\ has(xs[k], V)
                              /\ \A j \in DOMAIN xs :
                                    (xs[j].tag = "add" /\ has(xs[j], V)) => k <= j
                     ts == xs[i].args
                 IN expand(SumOf([k \in DOMAIN ts |-> ProdOf([xs EXCEPT ![i] = ts[k]], n)],
                                 Len(ts)), V)
            ELSE ProdOf(xs, n)

\* --- separability: one flag per axis
\* self.separable of a subspace operator: a functional is not separable,
\* ConvertConstant is, another operator is when its input basis is "S"
separable_of(e) ==
    IF e.name = "Interpolate" THEN FALSE
    ELSE get_basis(e.args[1], e.val) \in {NoBasis, "S"}

\* the separability of a leaf: every axis for a variable
separability_leaf(e, V) ==
    IF e \in V.leaves
    THEN [out |-> [a \in ExprAxes |-> TRUE], raised |-> "none"]
    ELSE [out |-> <<>>, raised |-> "NonlinearOperatorError"]

\* (variant of LinearSubspaceOperator_separability: the operand's array is
\* written in place)
LinearSubspaceOperator_separability_inplace(e, operand_sep) ==
    LET separability == IF ~separable_of(e) THEN [operand_sep EXCEPT ![e.val] = FALSE]
                        ELSE operand_sep
    IN [out |-> separability, operand |-> separability]

\* LinearSubspaceOperator.separability, given the array the operand
\* returned: the result, and what the operand's array holds afterwards
LinearSubspaceOperator_separability(e, operand_sep) ==
    LET copy == operand_sep
        separability == IF ~separable_of(e) THEN [copy EXCEPT ![e.val] = FALSE] ELSE copy
    IN [out |-> separability, operand |-> operand_sep]

\* TimeDerivative.separability
TimeDerivative_separability(e, operand_sep) ==
    LET copy == operand_sep IN [out |-> copy, operand |-> operand_sep]

\* CastNumber / NonlinearOperator / LinearSubspaceOperator / TimeDerivative
\* .separability: out, the operand's array afterwards, the exception
RECURSIVE separability(_, _)
separability(e, V) ==
    IF e.tag = "field"
    THEN [out |-> separability_leaf(e, V).out, operand |-> <<>>,
          raised |-> separability_leaf(e, V).raised]
    ELSE IF e.tag # "lin"
    THEN [out |-> <<>>, operand |-> <<>>, raised |-> "NonlinearOperatorError"]
    ELSE LET s == separability(e.args[1], V) IN
         IF s.raised # "none" THEN [out |-> <<>>, operand |-> <<>>, raised |-> s.raised]
         ELSE LET r == IF e.name = "TimeDerivative"
                       THEN TimeDerivative_separability(e, s.out)
                       ELSE LinearSubspaceOperator_separability(e, s.out)
              IN [out |-> r.out, operand |-> r.operand, raised |-> "none"]

\* a mapping with one key: {key: value}
Mapping(key, value) == <<key, value>>

\* (variant of factor: a leaf outside the variables raises)
factor_raising(e, V) ==
    IF e \in V.leaves
    THEN [out |-> Mapping(e, Number(1)), raised |-> "none"]
    ELSE [out |-> <<>>, raised |-> "SymbolicParsingError"]

\* Data.factor
factor(e, V) ==
    IF e \in V.leaves
    THEN [out |-> Mapping(e, Number(1)), raised |-> "none"]
    ELSE [out |-> Mapping(Number(1), e), raised |-> "none"]

\* (variant of operator_dict: a leaf outside the variables is a coefficient)
operator_dict_quiet(e, V) ==
    IF e \in V.leaves
    THEN [out |-> Mapping(e, Number(1)), raised |-> "none"]
    ELSE [out |-> Mapping(Number(1), e), raised |-> "none"]

\* Data.operator_dict
operator_dict(e, V) ==
    IF e \in V.leaves
    THEN [out |-> Mapping(e, Number(1)), raised |-> "none"]
    ELSE [out |-> <<>>, raised |-> "SymbolicParsingError"]

\* --- the expressions built and queried
MaxDepth == 2

RECURSIVE Depth(_)
Depth(e) ==
    IF e.args = <<>> THEN 0
    ELSE 1 + Max(Depth(e.args[1]), IF Len(e.args) > 1 THEN Depth(e.args[2]) ELSE 0)

RECURSIVE HasNonlinear(_)
HasNonlinear(e) ==
    \/ e.tag = "non"
    \/ \E i \in DOMAIN e.args : HasNonlinear(e.args[i])

VarSets ==
    {NoVars,
     [leaves |-> {NamedField("u")}, ops |-> {}],
     [leaves |-> {NamedField("u"), NamedField("w")}, ops |-> {}],
     [leaves |-> {NamedField("u")}, ops |-> {"TimeDerivative"}]}

Exponents == {Number(0), Number(1), Number(2), NamedField("c"), NamedField("w")}

\* res: the last call, its arguments and what it returned or raised
Result(o, V, inp, out, raised) ==
    [op |-> o, V |-> V, inp |-> inp, out |-> out, raised |-> raised]

FieldPartUnchanged ==
    UNCHANGED <<dom, field, pc, op, exc, hist, rt, sys, pset, plog, pencils, mats>>

\* an operator is constructed over the expression; the expression built so
\* far is kept when the dispatch fails
Construct(o, inp, out) ==
    /\ Depth(expr) < MaxDepth
    /\ expr' = IF out = DispatchFailed THEN expr ELSE out
    /\ res' = Result(o, NoVars, inp, <<out>>,
                     IF out = DispatchFailed THEN "dispatch" ELSE "none")
    /\ FieldPartUnchanged

b_Differentiate ==
    \E axis \in ExprAxes :
        Construct("Differentiate", <<expr, Number(axis)>>, Differentiate(expr, axis))

b_Interpolate == Construct("Interpolate", <<expr>>, Interpolate(expr, 0))

b_TimeDerivative == Construct("TimeDerivative", <<expr>>, TimeDerivative(expr))

b_Convert == Construct("Convert", <<expr>>, Convert(expr, 0, "U"))

b_Power ==
    \E y \in Exponents :
        \/ Construct("Power", <<expr, y>>, Power(expr, y))
        \/ Construct("Power", <<NamedField("u"), expr>>, Power(NamedField("u"), expr))

b_UnaryGridFunction ==
    Construct("UnaryGridFunction", <<expr>>, UnaryGridFunction("sin", expr))

Query(o, V, inp, out, raised) ==
    /\ IsOperand(expr)
    /\ res' = Result(o, V, inp, out, raised)
    /\ UNCHANGED expr
    /\ FieldPartUnchanged

b_GeneralFunction ==
    Construct("GeneralFunction", <<expr, NamedField("w")>>,
              GeneralFunction(<<expr, NamedField("w")>>))

q_split ==
    \E V \in VarSets : Query("split", V, <<expr>>, split(expr, V), "none")

q_require_linearity ==
    \E V \in VarSets :
        Query("require_linearity", V, <<expr>>, <<>>, require_linearity(expr, V))

q_sym_diff ==
    \E var \in Leaves :
        /\ ~HasNonlinear(expr)
        /\ Query("sym_diff", NoVars, <<expr, var>>, <<sym_diff(expr, var)>>, "none")

q_factor ==
    \E V \in VarSets :
        /\ IsLeaf(expr)
        /\ Query("factor", V, <<expr>>, factor(expr, V).out, factor(expr, V).raised)

q_operator_dict ==
    \E V \in VarSets :
        /\ IsLeaf(expr)
        /\ Query("operator_dict", V, <<expr>>, operator_dict(expr, V).out,
                 operator_dict(expr, V).raised)

InitExpr ==
    /\ expr \in Leaves \cup {CastNumber(2)}
    /\ res = Result("none", NoVars, <<>>, <<>>, "none")
    /\ dom \in Domains(1, {CoeffSize})
    /\ field = NewField(dom)
    /\ pc = "idle"
    /\ op = NoOp(dom)
    /\ exc = "none"
    /\ hist = [start |-> field, nsteps |-> 0]
    /\ rt = NoRt
    /\ sys = NoSystem
    /\ pset = NoSystem
    /\ plog = NoSystem
    /\ pencils = NoSystem
    /\ mats = NoSystem

NextExpr ==
    \/ b_Differentiate
    \/ b_Interpolate
    \/ b_TimeDerivative
    \/ b_Convert
    \/ b_Power
    \/ b_UnaryGridFunction
    \/ b_GeneralFunction
    \/ q_split
    \/ q_require_linearity
    \/ q_sym_diff
    \/ q_factor
    \/ q_operator_dict

SpecExpr == InitExpr /\ [][NextExpr]_vars

\* --- grid functions and their derivatives
g_UnaryGridFunction ==
    \E func \in Supported :
        Construct("UnaryGridFunction", <<expr>>, UnaryGridFunction(func, expr))

g_sym_diff ==
    \E var \in Leaves :
        LET d == sym_diff(expr, var)
        IN Query("sym_diff", NoVars, <<expr, var>>, <<d>>,
                 IF d.tag = "fail" THEN d.name ELSE "none")

NextGrid ==
    \/ g_UnaryGridFunction
    \/ g_sym_diff
    \/ b_Differentiate

SpecGrid == InitExpr /\ [][NextGrid]_vars

\* --- chains of linear operators: conversions, replace, expand, separability
BasisArg(b) == [tag |-> "basis", name |-> b, val |-> 0, basis |-> b, args |-> <<>>]

\* Convert(operand, space, output_basis): the subclasses that accept the
\* arguments, then the construction by the one that does
v_Convert ==
    \E operand \in {expr, Number(2)} : \E axis \in ExprAxes : \E b \in BasisTypes :
        LET matches == ConvertMatches(operand, axis, b)
            out == Convert(operand, axis, b)
        IN /\ Depth(expr) < MaxDepth
           /\ expr' = IF out = DispatchFailed THEN expr ELSE out
           /\ res' = Result("Convert", NoVars, <<operand, Number(axis), BasisArg(b)>>,
                            <<out, matches>>,
                            IF matches = {} THEN "dispatch"
                            ELSE IF out = DispatchFailed THEN "AttributeError"
                            ELSE "none")
           /\ FieldPartUnchanged

Replacements == {NamedField("c"), Number(0)}

v_replace ==
    \E old \in Leaves : \E new \in Replacements :
        Query("replace", NoVars, <<expr, old, new>>, <<replace(expr, old, new)>>, "none")

v_expand ==
    \E V \in VarSets :
        LET x == expand(expr, V)
        IN Query("expand", V, <<expr>>, <<x>>, IF x.tag = "fail" THEN x.name ELSE "none")

v_separability ==
    \E V \in VarSets :
        LET s == separability(expr, V)
        IN Query("separability", V, <<expr>>, <<s.out, s.operand>>, s.raised)

NextLinear ==
    \/ v_Convert
    \/ b_Differentiate
    \/ b_Interpolate
    \/ b_TimeDerivative
    \/ q_split
    \/ g_sym_diff
    \/ v_replace
    \/ v_expand
    \/ v_separability

SpecLinear == InitExpr /\ [][NextLinear]_vars

\* --- expansion over sums and products
\* sums and products are flattened: their length is bounded like the depth
v_Add ==
    \E y \in Leaves :
        /\ Len(Terms(expr)) < MaxDepth
        /\ Construct("Add", <<expr, y>>, Add(expr, y))

v_Multiply ==
    \E y \in Leaves :
        /\ Len(Factors(expr)) < MaxDepth
        /\ Construct("Multiply", <<expr, y>>, Multiply(expr, y))

NextExpand ==
    \/ b_TimeDerivative
    \/ b_Differentiate
    \/ v_Add
    \/ v_Multiply
    \/ v_expand

SpecExpand == InitExpr /\ [][NextExpand]_vars

\* ------------------------------------------ operator layout conditions
\* An operator over argument fields of one domain.  sys holds the argument
\* fields, expr the operator: its class, `axis` (self.axis of a subspace
\* operator, self.require_grid_axis of PowerFieldConstant, None if it has
\* none) and `separable`.
Operator(variant, axis, separable) ==
    [variant |-> variant, axis |-> axis, separable |-> separable]

Operators(d) ==
    {Operator("PowerFieldConstant", a, TRUE) : a \in Axes(d) \cup {None}}
        \cup {Operator("LinearSubspaceOperator", a, s) : a \in Axes(d), s \in BOOLEAN}
        \cup {Operator("ConvertConstant", a, TRUE) : a \in Axes(d)}
        \cup {Operator("CastNumber", None, TRUE)}

\* number of argument fields
NArgs(o) == IF o.variant = "PowerFieldConstant" THEN 2 ELSE 1

\* check_conditions of each class
check_conditions(o, args, d) ==
    IF o.variant = "PowerFieldConstant"
    THEN LET layout0 == args[1].layout
             layout1 == args[2].layout
         IN IF o.axis # None
            THEN LayoutAt(d, layout0).grid_space[o.axis] /\ layout0 = layout1
            ELSE layout0 = layout1
    ELSE IF o.variant = "LinearSubspaceOperator"
    THEN LET is_coeff == ~LayoutAt(d, args[1].layout).grid_space[o.axis]
             is_local == LayoutAt(d, args[1].layout).local[o.axis]
         IN IF o.separable THEN is_coeff ELSE is_coeff /\ is_local
    ELSE TRUE

\* PowerFieldConstant.enforce_conditions
enforce_PowerFieldConstant(o, args, d) ==
    LET arg0 == IF o.axis # None
                THEN require_grid_space(args[1], d, o.axis)
                ELSE args[1]
    IN <<arg0, require_layout(args[2], d, arg0.layout)>>

\* (variant of enforce_LinearSubspaceOperator: locality is not required)
enforce_LinearSubspaceOperator_coeff(o, args, d) ==
    <<require_coeff_space(args[1], d, o.axis)>>

\* LinearSubspaceOperator.enforce_conditions
enforce_LinearSubspaceOperator(o, args, d) ==
    LET operand == require_coeff_space(args[1], d, o.axis)
    IN IF ~o.separable THEN <<require_local(operand, d, o.axis)>> ELSE <<operand>>

\* enforce_conditions of each class
enforce_conditions(o, args, d) ==
    IF o.variant = "PowerFieldConstant" THEN enforce_PowerFieldConstant(o, args, d)
    ELSE IF o.variant = "LinearSubspaceOperator"
    THEN enforce_LinearSubspaceOperator(o, args, d)
    ELSE args

\* res: the last call, the argument fields before it, what it returned
CondResult(o, before, out) == [op |-> o, before |-> before, out |-> out]

CondUnchanged ==
    UNCHANGED <<dom, field, pc, op, exc, hist, rt, pset, plog, pencils, mats, expr>>

\* an argument field is taken to some layout of the chain by its user
c_require_layout ==
    \E i \in 1 .. Len(sys), L \in 0 .. NPaths(dom) :
        /\ sys' = [sys EXCEPT ![i] = require_layout(@, dom, L)]
        /\ res' = CondResult("require_layout", sys, TRUE)
        /\ CondUnchanged

c_check_conditions ==
    /\ res' = CondResult(IF res.op = "enforce_conditions"
                         THEN "check_after_enforce" ELSE "check_conditions",
                         sys, check_conditions(expr, sys, dom))
    /\ UNCHANGED sys
    /\ CondUnchanged

c_enforce_conditions ==
    /\ sys' = enforce_conditions(expr, sys, dom)
    /\ res' = CondResult("enforce_conditions", sys, TRUE)
    /\ CondUnchanged

InitCond ==
    /\ dom \in Domains(MaxDim, {CoeffSize})
    /\ expr \in Operators(dom)
    /\ sys = [i \in 1 .. NArgs(expr) |-> NewField(dom)]
    /\ res = CondResult("none", sys, TRUE)
    /\ field = NewField(dom)
    /\ pc = "idle"
    /\ op = NoOp(dom)
    /\ exc = "none"
    /\ hist = [start |-> field, nsteps |-> 0]
    /\ rt = NoRt
    /\ pset = NoSystem
    /\ plog = NoSystem
    /\ pencils = NoSystem
    /\ mats = NoSystem

NextCond ==
    \/ c_require_layout
    \/ c_check_conditions
    \/ c_enforce_conditions

SpecCond == InitCond /\ [][NextCond]_vars

\* ------------------------------------------------------------ properties
Abs(x) == IF x < 0 THEN -x ELSE x

Lay(f) == LayoutAt(dom, f.layout)

Looping(name) == pc = "loop" /\ op.name = name

\* the loop of the running call has finished: the call is about to return
AboutToReturn(name) == Looping(name) /\ LoopDir(op, field, hist, dom) = "done"

\* C1: require_layout(L) moves the layout index by exactly one per transform
\* step, each step one closer to L.index, and returns (without an error)
\* with the index equal to L.index.
C1_RequireLayoutWalk ==
    [][Looping("require_layout") =>
        /\ (pc' = "loop" =>
              /\ Abs(field'.layout - field.layout) = 1
              /\ Abs(op.target - field'.layout) = Abs(op.target - field.layout) - 1)
        /\ (pc' = "idle" =>
              /\ exc' = "none"
              /\ field' = field
              /\ field.layout = op.target)]_vars

C1_Witness ==
    /\ AboutToReturn("require_layout")
    /\ hist.nsteps >= 2
    /\ hist.start.layout > op.target
    /\ field.layout = op.target

\* C2 as stated: two consecutive observed layout indices of the field never
\* differ by more than one, whichever operation changed the layout.
C2_Original ==
    [][Abs(field'.layout - field.layout) <= 1]_vars

\* C2 amended: every transform step changes the layout index by exactly
\* one (a towards_grid_space call below index N, a towards_coeff_space call
\* above index 0, and each step inside require_layout, require_grid_space,
\* require_coeff_space, require_local and set_scales); the only other
\* changes of the index are the direct assignments of the layout setter and
\* of __setitem__, and towards_coeff_space called at index 0.
C2_SequentialSteps ==
    [][field'.layout # field.layout =>
        \/ /\ pc = "loop"
           /\ Abs(field'.layout - field.layout) = 1
        \/ /\ pc = "idle"
           /\ op'.name = "towards_grid_space"
           /\ field'.layout = field.layout + 1
        \/ /\ pc = "idle"
           /\ op'.name = "towards_coeff_space"
           /\ field.layout > 0
           /\ field'.layout = field.layout - 1
        \/ /\ pc = "idle"
           /\ op'.name = "towards_coeff_space"
           /\ field.layout = 0
        \/ /\ pc = "idle"
           /\ op'.name \in {"layout_setter", "setitem"}]_vars

C2_Witness ==
    /\ pc = "loop"
    /\ op.name \in {"require_coeff_space", "set_scales"}
    /\ hist.nsteps >= 2
    /\ field.layout = hist.start.layout - hist.nsteps

\* C3: require_layout(L) called while the field is at L takes no transform
\* step: it returns at once and leaves layout, buffer and data view as they
\* were.
C3_RequireLayoutIdempotent ==
    [][(Looping("require_layout") /\ hist.start.layout = op.target) =>
        /\ pc' = "idle"
        /\ exc' = "none"
        /\ field' = field
        /\ field = hist.start
        /\ hist.nsteps = 0]_vars

C3_Witness ==
    /\ Looping("require_layout")
    /\ hist.start.layout = op.target
    /\ op.target > 0
    /\ field.data.base = "u"

GridOK(l, axis) == IF axis = None THEN all_grid(l, dom) ELSE l.grid_space[axis]
CoeffOK(l, axis) == IF axis = None THEN ~any_grid(l, dom) ELSE ~l.grid_space[axis]

\* the running loop either finishes or takes a step that does not fail, it
\* stays on the chain and has taken no more steps than the chain has paths
LoopBounded ==
    /\ LoopDir(op, field, hist, dom) \in {"grid", "coeff", "done"}
    /\ LoopDir(op, field, hist, dom) # "done" =>
            ~towards_raises(field, dom, LoopDir(op, field, hist, dom))
    /\ field.layout \in 0 .. NPaths(dom)
    /\ hist.nsteps <= NPaths(dom)

\* C4: require_grid_space and require_coeff_space terminate, from every
\* layout and for every axis (or all axes), with the axis (all axes) in
\* grid space, respectively coefficient space; every iteration is a single
\* step, taken only while the check fails.  (Termination: every iteration
\* moves the index one way along the finite chain, at most N times.)
C4_RequireSpaceTerminates ==
    /\ [][Looping("require_grid_space") =>
            /\ (pc' = "loop" =>
                  /\ ~GridOK(Lay(field), op.axis)
                  /\ field'.layout = field.layout + 1)
            /\ (pc' = "idle" =>
                  /\ exc' = "none"
                  /\ field' = field
                  /\ GridOK(Lay(field), op.axis))]_vars
    /\ [][Looping("require_coeff_space") =>
            /\ (pc' = "loop" =>
                  /\ ~CoeffOK(Lay(field), op.axis)
                  /\ field'.layout = field.layout - 1)
            /\ (pc' = "idle" =>
                  /\ exc' = "none"
                  /\ field' = field
                  /\ CoeffOK(Lay(field), op.axis))]_vars
    /\ []((Looping("require_grid_space") \/ Looping("require_coeff_space")) =>
            LoopBounded)

C4_Witness ==
    /\ AboutToReturn("require_coeff_space")
    /\ op.axis # None
    /\ hist.nsteps >= 1
    /\ field.layout > 0

\* C5: require_local(axis) terminates with the axis local; each step goes
\* toward coefficient space when the axis is in grid space and toward grid
\* space when it is in coefficient space; no step is taken when the axis is
\* local.
C5_RequireLocal ==
    /\ [][Looping("require_local") =>
            /\ (pc' = "loop" =>
                  /\ ~Lay(field).local[op.axis]
                  /\ field'.layout = IF Lay(field).grid_space[op.axis]
                                     THEN field.layout - 1
                                     ELSE field.layout + 1)
            /\ (pc' = "idle" =>
                  /\ exc' = "none"
                  /\ field' = field
                  /\ Lay(field).local[op.axis])]_vars
    /\ [](Looping("require_local") => LoopBounded)

C5_Witness ==
    /\ AboutToReturn("require_local")
    /\ hist.nsteps >= 2
    /\ Lay(field).local[op.axis]

\* C6: the shape of the data view is layout.local_shape(scales) for the
\* current layout and the current scales, in every state.
C6_DataShape ==
    field.shape = local_shape(Lay(field), field.scales, dom)

C6_Witness ==
    /\ pc = "idle"
    /\ op.name = "set_scales"
    /\ field.layout = NPaths(dom)
    /\ \E a \in Axes(dom) : field.scales[a] = 2
    /\ \E a \in Axes(dom) : field.shape[a] = GridSize * 2

ScalesAgree(l, old, new) == \A a \in Axes(dom) : l.grid_space[a] => old[a] = new[a]

\* C7: set_scales(new, keep_data=True) with new scales: when the buffer is
\* reallocated every axis still in grid space has the same old and new
\* scale; the rewind stopped at the highest layout, not above the one it
\* started from, with this property, and took one step per layout passed
\* (none when no grid-space axis changes scale).
C7_SetScalesRewind ==
    [][(Looping("set_scales") /\ op.keep /\ pc' = "idle") =>
        /\ exc' = "none"
        /\ ScalesAgree(Lay(field), field.scales, op.new)
        /\ \A j \in (field.layout + 1) .. hist.start.layout :
              ~ScalesAgree(LayoutAt(dom, j), field.scales, op.new)
        /\ hist.nsteps = hist.start.layout - field.layout
        /\ field'.scales = op.new
        /\ field'.layout = field.layout]_vars

C7_Witness ==
    /\ AboutToReturn("set_scales")
    /\ op.keep
    /\ hist.nsteps >= 1
    /\ field.layout > 0
    /\ op.new # field.scales

NFields == Len(sys)
FieldData(i) == data_view(sys[i + 1], dom)
Columns == 0 .. (pset.shape[LastAxis(dom)] - 1)
Stride == coeff_shape(dom)[LastAxis(dom)]

\* C9: get_system directly followed by set_system leaves every field in the
\* coefficient layout with the coefficient data it had before get_system.
C9_SystemRoundTrip ==
    (plog.last = "set_system" /\ plog.after_get) =>
        /\ plog.exc = "none"
        /\ \A i \in 0 .. (NFields - 1) :
              /\ sys[i + 1].layout = 0
              /\ FieldData(i) = plog.snap[i + 1]

C9_Witness ==
    /\ plog.last = "set_system"
    /\ plog.after_get
    /\ plog.moved
    /\ NFields >= 2
    /\ Stride >= 2
    /\ TransIdx(dom, coeff_shape(dom)) # {}
    /\ \E i \in 0 .. (NFields - 1) : FieldData(i) = UserArray(dom, i)

BufferShapeOK ==
    /\ pset.stride = Stride
    /\ pset.shape = [coeff_shape(dom) EXCEPT ![LastAxis(dom)] = Stride * NFields]
    /\ DOMAIN pset.data = TransIdx(dom, coeff_shape(dom))
    /\ \A t \in DOMAIN pset.data : DOMAIN pset.data[t] = Columns

\* C10 as stated: the buffer has shape (*transverse_shape, stride*n_fields)
\* and after get_system entry k of field i is in column i + k*stride.
C10_Original ==
    /\ BufferShapeOK
    /\ plog.last = "get_system" =>
          \A i \in 0 .. (NFields - 1), t \in DOMAIN pset.data, k \in 0 .. (Stride - 1) :
              /\ i + k * pset.stride \in Columns
              /\ pset.data[t][i + k * pset.stride] = FieldData(i)[t][k]

\* C10 amended: the buffer has shape (*transverse_shape, stride*n_fields),
\* stride being the per-field coefficient extent along the last axis, and
\* after get_system entry k of field i is in column i + k*n_fields: the
\* fields are interleaved with step n_fields.
C10_Interleaved ==
    /\ BufferShapeOK
    /\ plog.last = "get_system" =>
          /\ plog.exc = "none"
          /\ \A i \in 0 .. (NFields - 1), t \in DOMAIN pset.data, k \in 0 .. (Stride - 1) :
                /\ i + k * NFields \in Columns
                /\ pset.data[t][i + k * NFields] = FieldData(i)[t][k]

C10_Witness ==
    /\ plog.last = "get_system"
    /\ plog.moved
    /\ NFields >= 2
    /\ Stride >= 2
    /\ TransIdx(dom, coeff_shape(dom)) # {}

\* the transverse index a pencil selects, if it selects exactly one
SelectsOnly(pn, t) ==
    pencil_cells(pn, pset, dom) = {t} \X Columns

\* C11: the pencils partition the buffer by transverse index: each pencil
\* selects one index on every axis but the last and the whole last axis,
\* two pencils never select the same transverse index, every transverse
\* index is selected, there are as many pencils as the product of the
\* transverse shape, and a 1-D domain has one pencil seeing the whole buffer.
C11_PencilPartition ==
    /\ \A q \in DOMAIN pencils :
          /\ \A a \in 0 .. (dom.dim - 2) :
                /\ pencils[q].slice[a].start \in 0 .. (pset.shape[a] - 1)
                /\ pencils[q].slice[a].stop = pencils[q].slice[a].start + 1
          /\ pencils[q].slice[LastAxis(dom)].start = None
          /\ \E t \in DOMAIN pset.data : SelectsOnly(pencils[q], t)
    /\ \A q1, q2 \in DOMAIN pencils :
          q1 # q2 => pencil_cells(pencils[q1], pset, dom)
                        \cap pencil_cells(pencils[q2], pset, dom) = {}
    /\ \A t \in DOMAIN pset.data :
          \E q \in DOMAIN pencils : SelectsOnly(pencils[q], t)
    /\ Len(pencils) = Prod(trans_shape(pset, dom), dom.dim - 1)
    /\ Len(pencils) = Cardinality(DOMAIN pset.data)
    /\ dom.dim = 1 =>
          /\ Len(pencils) = 1
          /\ pencil_cells(pencils[1], pset, dom) = (DOMAIN pset.data) \X Columns

C11_Witness ==
    /\ dom.dim = 3
    /\ Len(pencils) >= 4
    /\ \A a \in 0 .. 1 : pset.shape[a] >= 2
    /\ mats # NoSystem

IsZeroRow(A, r) == \A c \in DOMAIN A[r] : A[r][c] = 0

\* C12: after build_matrices, on every row that is nonzero in Mb or in Lb
\* the row of M is the row of Mb and the row of L is the row of Lb: the PDE
\* terms are cleared there in both matrices.
C12_BoundaryRows ==
    mats # NoSystem =>
        \A r \in NonzeroRows(mats.Mb) \cup NonzeroRows(mats.Lb) :
            /\ mats.M[r] = mats.Mb[r]
            /\ mats.L[r] = mats.Lb[r]

C12_Witness ==
    /\ mats # NoSystem
    /\ \E r \in NonzeroRows(mats.Mb) \ NonzeroRows(mats.Lb) :
          /\ ~IsZeroRow(mats.pde_M, r)
          /\ ~IsZeroRow(mats.pde_L, r)
          /\ IsZeroRow(mats.L, r)
    /\ \E r \in NonzeroRows(mats.Lb) \ NonzeroRows(mats.Mb) :
          /\ ~IsZeroRow(mats.pde_M, r)
          /\ IsZeroRow(mats.M, r)

\* the named leaves of an expression
RECURSIVE ExprLeaves(_)
ExprLeaves(e) ==
    IF e.tag = "field" THEN (IF e.name = "" THEN {} ELSE {e})
    ELSE UNION {ExprLeaves(e.args[i]) : i \in DOMAIN e.args}

\* an expression without its Convert and CastNumber wrappers, its linear
\* operators constructed again over what is left: a conversion is the
\* operand in another basis, a cast number compares equal to the number,
\* and a linear operator over a constant constructs to its constant value
RECURSIVE Canon(_)
Canon(e) ==
    IF e.tag = "cast" THEN Number(e.val)
    ELSE IF e.tag = "lin" /\ e.name = "Convert" THEN Canon(e.args[1])
    ELSE IF e.tag = "lin" THEN new_operand(e, Canon(e.args[1]))
    ELSE [e EXCEPT !.args = [i \in DOMAIN e.args |-> Canon(e.args[i])]]

\* a + b, with 0 + b = b and a + 0 = a
SymSum(a, b) ==
    IF a = Number(0) THEN b
    ELSE IF b = Number(0) THEN a
    ELSE NonNode("Add", <<a, b>>)

SplitSumsTo(x, a, b) == Canon(SymSum(a, b)) = Canon(x)

\* C13 as stated: split(V) returns (a, b) with a + b symbolically equal to
\* x, a depending only on V (every leaf of a is a member of V) and b
\* mentioning no member of V.
C13_Original ==
    res.op = "split" =>
        /\ SplitSumsTo(expr, res.out[1], res.out[2])
        /\ res.V.ops = {} => ExprLeaves(res.out[1]) \subseteq res.V.leaves
        /\ ~has(res.out[2], res.V)

\* C13 amended: split(V) returns (a, b) with a + b symbolically equal to x
\* once Convert nodes are dropped and linear operators over constants are
\* simplified as at construction; b mentions no member of V, and a is 0 or
\* mentions a member of V; a may mention leaves outside V too, since a
\* nonlinear operator that mentions a member of V goes to a whole.
C13_Split ==
    res.op = "split" =>
        /\ SplitSumsTo(expr, res.out[1], res.out[2])
        /\ res.out[1] = Number(0) \/ has(res.out[1], res.V)
        /\ ~has(res.out[2], res.V)
        /\ res.raised = "none"

C13_Witness ==
    /\ res.op = "split"
    /\ expr.tag = "lin"
    /\ expr.name = "Differentiate"
    /\ HasNonlinear(expr)
    /\ res.out[1] # Number(0)
    /\ ~(ExprLeaves(res.out[1]) \subseteq res.V.leaves)
    /\ res.out[2] = Number(0)

\* the exponent of a Power call once cast: an unnamed constant of value n
UnnamedValue(y, n) == Cast(y).tag = "field" /\ Cast(y).name = "" /\ Cast(y).val = n

HasSomeBasis(e) == \E a \in ExprAxes : bases(e)[a] # NoBasis

\* C14: construction simplifies constant arguments: Differentiate of a
\* number or of an operand without a basis along the space is the number 0,
\* never a node; Power(x, 0) is 1; Power(x, 1) is x; every other constant
\* exponent gives a Power node.
C14_ConstantSimplification ==
    /\ (/\ res.op = "Differentiate"
        /\ \/ IsNumber(res.inp[1])
           \/ get_basis(res.inp[1], res.inp[2].val) = NoBasis) =>
          (res.out[1] = Number(0) /\ expr = Number(0))
    /\ (res.op = "Power" /\ ~HasSomeBasis(Cast(res.inp[2]))) =>
          /\ UnnamedValue(res.inp[2], 0) => res.out[1] = Number(1)
          /\ UnnamedValue(res.inp[2], 1) => res.out[1] = Cast(res.inp[1])
          /\ (UnnamedValue(res.inp[2], 1) /\ IsOperand(res.inp[1])) =>
                res.out[1] = res.inp[1]
          /\ (~UnnamedValue(res.inp[2], 0) /\ ~UnnamedValue(res.inp[2], 1)) =>
                res.out[1] = NonNode("Pow", <<Cast(res.inp[1]), Cast(res.inp[2])>>)

C14_Witness ==
    /\ res.op = "Power"
    /\ res.inp[1].tag = "lin"
    /\ res.inp[2] = Number(1)
    /\ res.out[1] = res.inp[1]
    /\ expr = res.inp[1]

\* the Power nodes of an expression
RECURSIVE PowerNodes(_)
PowerNodes(e) ==
    (IF e.tag = "non" /\ e.name = "Pow" THEN {e} ELSE {})
        \cup UNION {PowerNodes(e.args[i]) : i \in DOMAIN e.args}

\* C15: a Power call whose exponent has a basis on some axis fails the
\* dispatch, and no expression ever holds a Power node with such an exponent.
C15_PowerVariableExponent ==
    /\ (res.op = "Power" /\ HasSomeBasis(Cast(res.inp[2]))) =>
          /\ res.out[1] = DispatchFailed
          /\ res.raised = "dispatch"
    /\ \A n \in PowerNodes(expr) : ~HasSomeBasis(n.args[2])

C15_Witness ==
    /\ res.op = "Power"
    /\ res.inp[2] = NamedField("w")
    /\ res.inp[1].tag = "lin"
    /\ res.raised = "dispatch"
    /\ expr = res.inp[1]

\* the leaf a chain of linear operators ends in; the node itself otherwise
RECURSIVE ChainEnd(_)
ChainEnd(e) == IF e.tag = "lin" THEN ChainEnd(e.args[1]) ELSE e

\* C17: require_linearity(vars) raises the nonlinearity error exactly when
\* the subtree is not linear in vars: a nonlinear operator raises, a leaf
\* outside vars raises, a leaf in vars returns, and a linear operator raises
\* exactly when its operand does.
C17_RequireLinearity ==
    res.op = "require_linearity" =>
        /\ res.raised \in {"none", "NonlinearOperatorError"}
        /\ expr.tag = "non" => res.raised = "NonlinearOperatorError"
        /\ (IsLeaf(expr) /\ expr \notin res.V.leaves) =>
              res.raised = "NonlinearOperatorError"
        /\ (IsLeaf(expr) /\ expr \in res.V.leaves) => res.raised = "none"
        /\ expr.tag = "lin" =>
              (res.raised = "none" <=>
                  (IsLeaf(ChainEnd(expr)) /\ ChainEnd(expr) \in res.V.leaves))

C17_Witness ==
    /\ res.op = "require_linearity"
    /\ expr.tag = "lin"
    /\ expr.args[1].tag = "lin"
    /\ ChainEnd(expr) = NamedField("w")
    /\ res.V.leaves = {NamedField("u")}
    /\ res.raised = "NonlinearOperatorError"

\* the original statement of C18: both queries raise on a leaf outside vars
C18_Original ==
    (res.op \in {"factor", "operator_dict"} /\ IsLeaf(expr)) =>
        /\ expr \notin res.V.leaves => res.raised = "SymbolicParsingError"
        /\ expr \in res.V.leaves =>
              (res.out = Mapping(expr, Number(1)) /\ res.raised = "none")

\* C18: operator_dict raises the symbolic parsing error on a leaf outside
\* vars, factor returns the mapping {1: leaf} for it without an error, and
\* both return {leaf: 1} for a leaf in vars.
C18_LeafMapping ==
    (res.op \in {"factor", "operator_dict"} /\ IsLeaf(expr)) =>
        /\ (res.op = "operator_dict" /\ expr \notin res.V.leaves) =>
              res.raised = "SymbolicParsingError"
        /\ (res.op = "factor" /\ expr \notin res.V.leaves) =>
              (res.out = Mapping(Number(1), expr) /\ res.raised = "none")
        /\ expr \in res.V.leaves =>
              (res.out = Mapping(expr, Number(1)) /\ res.raised = "none")

C18_Witness ==
    /\ res.op = "factor"
    /\ expr = NamedField("w")
    /\ res.V.leaves = {NamedField("u")}
    /\ res.out = Mapping(Number(1), NamedField("w"))

\* C19: a leaf differentiates to 1 with respect to itself and to 0 with
\* respect to every other variable; a numeric cast differentiates to 0.
C19_LeafDerivative ==
    res.op = "sym_diff" =>
        /\ (IsLeaf(res.inp[1]) /\ res.inp[2] # res.inp[1]) => res.out[1] = Number(0)
        /\ (IsLeaf(res.inp[1]) /\ res.inp[2] = res.inp[1]) => res.out[1] = Number(1)
        /\ res.inp[1].tag = "cast" => res.out[1] = Number(0)

C19_Witness ==
    /\ res.op = "sym_diff"
    /\ res.inp[1] = NamedField("u")
    /\ res.inp[2] = NamedField("w")
    /\ res.out[1] = Number(0)

\* C16: check_conditions changes no argument field, and right after
\* enforce_conditions it is true, whatever layouts the arguments were in; a
\* non-separable subspace operator leaves its operand in coefficient space
\* and local along its axis.
C16_CheckAfterEnforce ==
    /\ res.op \in {"check_conditions", "check_after_enforce"} => sys = res.before
    /\ res.op = "check_after_enforce" => res.out
    /\ res.op = "enforce_conditions" =>
          /\ check_conditions(expr, sys, dom)
          /\ (expr.variant = "LinearSubspaceOperator" /\ ~expr.separable) =>
                /\ ~LayoutAt(dom, sys[1].layout).grid_space[expr.axis]
                /\ LayoutAt(dom, sys[1].layout).local[expr.axis]
          /\ (expr.variant = "PowerFieldConstant" /\ expr.axis # None) =>
                /\ LayoutAt(dom, sys[1].layout).grid_space[expr.axis]
                /\ sys[2].layout = sys[1].layout
          /\ expr.variant \in {"ConvertConstant", "CastNumber"} => sys = res.before

C16_Witness ==
    /\ res.op = "check_after_enforce"
    /\ expr.variant = "LinearSubspaceOperator"
    /\ ~expr.separable
    /\ res.out
    /\ LayoutAt(dom, sys[1].layout).local[expr.axis]
    /\ ~LayoutAt(dom, 0).local[expr.axis]
    /\ sys[1].layout > 0

\* a call of the one-step method `name` on the field
OneStepCall(name) == pc = "idle" /\ pc' = "idle" /\ op'.name = name

\* C20: towards_grid_space at layout index i applies the forward step of
\* path i and leaves the field at index i+1; towards_coeff_space at index i
\* applies the backward step of path i-1 and leaves the field at index i-1.
C20_Original ==
    [][/\ OneStepCall("towards_grid_space") =>
            /\ exc' = "none"
            /\ field'.layout = field.layout + 1
            /\ field' = increment(field, dom, field.layout)
       /\ OneStepCall("towards_coeff_space") =>
            /\ exc' = "none"
            /\ field'.layout = field.layout - 1
            /\ field' = decrement(field, dom, field.layout - 1)]_vars

\* position of the transverse index t in the row-major order of shape
\* (axes 0 .. a; the last axis varies fastest)
RECURSIVE RowMajor(_, _, _)
RowMajor(t, shape, a) ==
    IF a < 0 THEN 0 ELSE RowMajor(t, shape, a - 1) * shape[a] + t[a]

\* the transverse index the pencil at position q selects
PencilIndex(q) == [a \in 0 .. (dom.dim - 2) |-> pencils[q].slice[a].start]

\* first global index of the local block along axis a: 0 on a local axis,
\* the extent of one block for the second process of a distributed axis
StartOffset(a) ==
    IF a >= dom.mesh THEN 0 ELSE dom.csize \div MeshSize

\* C25: the pencils are listed in row-major order of the transverse shape:
\* the k-th pencil (k from 0) selects the row-major unraveling of k, and its
\* d_trans entry for axis n is trans_diff at the start offset of axis n plus
\* that local index.
C25_RowMajorOrder ==
    \A q \in DOMAIN pencils :
        /\ RowMajor(PencilIndex(q), pset.shape, dom.dim - 2) = q - 1
        /\ DOMAIN pencils[q].d_trans = 0 .. (dom.dim - 2)
        /\ \A n \in 0 .. (dom.dim - 2) :
              pencils[q].d_trans[n] =
                  <<"trans_diff", n, StartOffset(n) + PencilIndex(q)[n]>>

C25_Witness ==
    /\ dom.dim = 3
    /\ dom.mesh = 1
    /\ Len(pencils) = 2
    /\ PencilIndex(2) = [a \in 0 .. 1 |-> a]
    /\ pencils[2].d_trans[0] = <<"trans_diff", 0, 1>>
    /\ mats # NoSystem

RequireCalls ==
    {"require_layout", "require_grid_space", "require_coeff_space", "require_local"}

\* C26: during require_layout, require_grid_space, require_coeff_space and
\* require_local the layout index stays within 0..N: no step toward
\* coefficient space is taken at index 0, no step toward grid space at index
\* N, and none of these calls ends with an index error.
C26_StaysOnChain ==
    /\ field.layout \in 0 .. NPaths(dom)
    /\ (pc = "loop" /\ op.name \in RequireCalls) =>
          /\ LoopDir(op, field, hist, dom) = "coeff" => field.layout > 0
          /\ LoopDir(op, field, hist, dom) = "grid" => field.layout < NPaths(dom)
    /\ (pc = "idle" /\ op.name \in RequireCalls) => exc = "none"

C26_Witness ==
    /\ AboutToReturn("require_coeff_space")
    /\ op.axis = None
    /\ field.layout = 0
    /\ hist.nsteps = NPaths(dom)
    /\ NPaths(dom) >= 3

\* C27: require_local(axis) never changes whether the axis is in grid
\* space: at every point of the walk, and so when the call returns,
\* layout.grid_space[axis] is what it was when the call was made.
C27_RequireLocalKeepsSpace ==
    Looping("require_local") =>
        Lay(field).grid_space[op.axis] = Lay(hist.start).grid_space[op.axis]

C27_Witness ==
    /\ AboutToReturn("require_local")
    /\ hist.nsteps >= 1
    /\ Lay(field).grid_space[op.axis]
    /\ ~Lay(hist.start).local[op.axis]
    /\ field.layout = hist.start.layout - hist.nsteps

BoundaryRowSet == NonzeroRows(mats.Mb) \cup NonzeroRows(mats.Lb)

\* C28: build_matrices leaves the rows outside the boundary rows as the PDE
\* terms made them: there M and L are the rows of the sums of the Kronecker
\* products, and the stored M and L have the values they had before they
\* were expanded to the pattern of LHS.
C28_PdeRowsKept ==
    mats # NoSystem =>
        /\ \A r \in Idx(mats.size) \ BoundaryRowSet :
              /\ mats.M[r] = mats.pde_M[r]
              /\ mats.L[r] = mats.pde_L[r]
        /\ mats.M = mats.sum_M
        /\ mats.L = mats.sum_L

C28_Witness ==
    /\ mats # NoSystem
    /\ BoundaryRowSet # {}
    /\ \E r \in Idx(mats.size) \ BoundaryRowSet :
          /\ ~IsZeroRow(mats.M, r)
          /\ ~IsZeroRow(mats.L, r)
          /\ mats.M[r] # mats.L[r]
    /\ \E rc \in mats.LHS : mats.M[rc[1]][rc[2]] = 0

\* the entry at row r of kron(basis.bc_vector[:,0], problem.b(d_trans)) for
\* the basis and the problems built here
BoundaryRhs(r) ==
    LET n == n_fields_of(pset, dom)
    IN Basis(pset.stride).bc_vector[r \div n] * ((r % n) + 1)

\* C29: after build_matrices, bc_rows and bc_f have the same length, bc_rows
\* holds every boundary row exactly once, and bc_f[k] is the entry of the
\* boundary right-hand side at row bc_rows[k].
C29_BoundaryRhs ==
    mats # NoSystem =>
        /\ Len(mats.bc_rows) = Len(mats.bc_f)
        /\ {mats.bc_rows[k] : k \in DOMAIN mats.bc_rows} = BoundaryRowSet
        /\ Len(mats.bc_rows) = Cardinality(BoundaryRowSet)
        /\ \A k \in DOMAIN mats.bc_rows : mats.bc_f[k] = BoundaryRhs(mats.bc_rows[k])

C29_Witness ==
    /\ mats # NoSystem
    /\ Len(mats.bc_rows) = 2
    /\ mats.bc_rows[1] > mats.bc_rows[2]
    /\ mats.bc_f[1] # mats.bc_f[2]

\* C24: UnaryGridFunction.sym_diff(var) is defined for every supported
\* function: it raises nothing and returns the product of the derivative
\* rule of the table, applied to the argument, and arg.sym_diff(var).
C24_Original ==
    (/\ res.op = "sym_diff"
     /\ expr.tag = "non"
     /\ expr.name \in Supported
     /\ IsLeaf(expr.args[1])) =>
        /\ res.raised = "none"
        /\ res.out[1] = Multiply(diff_map(expr.name, expr.args[1]),
                                 sym_diff_leaf(expr.args[1], res.inp[2]))

\* ---------------------------------------------------------------- C30
\* C30: whatever operand, space and output basis Convert is called with, at
\* most one subclass accepts the arguments: ConvertSame, ConvertConstant and
\* the basis-typed subclasses exclude one another.
C30_DispatchUnambiguous ==
    res.op = "Convert" => Cardinality(res.out[2]) <= 1

\* Convert was called on an operand that has the output basis' type along
\* another axis and no basis along the space: only ConvertConstant accepts
C30_Witness ==
    /\ res.op = "Convert"
    /\ IsOperand(res.inp[1])
    /\ res.out[2] = {<<"ConvertConstant", "">>}
    /\ \E a \in ExprAxes : bases(res.inp[1])[a] = res.inp[3].name

\* ---------------------------------------------------------------- C23
\* C23: Convert returns the operand itself when the operand already has the
\* requested basis along the space; split, replace, sym_diff and expand of
\* a Convert node return what the same call on its operand returns.
C23_ConvertDelegates ==
    /\ (/\ res.op = "Convert"
        /\ IsOperand(res.inp[1])
        /\ get_basis(res.inp[1], res.inp[2].val) = res.inp[3].name)
           => res.out[1] = res.inp[1]
    /\ (expr.tag = "lin" /\ expr.name = "Convert") =>
          /\ res.op = "split" => res.out = split(expr.args[1], res.V)
          /\ res.op = "replace" =>
                res.out[1] = replace(expr.args[1], res.inp[2], res.inp[3])
          /\ res.op = "sym_diff" => res.out[1] = sym_diff(expr.args[1], res.inp[2])
          /\ res.op = "expand" => res.out[1] = expand(expr.args[1], res.V)

\* a Convert node over a variable was expanded: the variable came back
C23_Witness ==
    /\ expr.tag = "lin" /\ expr.name = "Convert"
    /\ res.op = "expand"
    /\ IsLeaf(expr.args[1])
    /\ expr.args[1] \in res.V.leaves
    /\ res.out[1] = expr.args[1]

\* ---------------------------------------------------------------- C22
\* C22: the separability of a subspace operator is its operand's with the
\* operator's axis cleared when the operator is not separable; that of a
\* TimeDerivative is its operand's; the array the operand returned holds
\* the same flags afterwards.
C22_Separability ==
    (res.op = "separability" /\ expr.tag = "lin" /\ res.raised = "none") =>
        LET s == separability(expr.args[1], res.V).out
        IN /\ expr.name = "TimeDerivative" => res.out[1] = s
           /\ expr.name # "TimeDerivative" =>
                 res.out[1] = [a \in ExprAxes |->
                                  IF a = expr.val /\ ~separable_of(expr) THEN FALSE
                                  ELSE s[a]]
           /\ res.out[2] = s

\* a non-separable operator cleared its axis, the operand's array kept it
C22_Witness ==
    /\ res.op = "separability" /\ expr.tag = "lin" /\ res.raised = "none"
    /\ expr.name # "TimeDerivative"
    /\ ~separable_of(expr)
    /\ ~res.out[1][expr.val]
    /\ res.out[2][expr.val]

\* ---------------------------------------------------------------- C21
\* the sum over the factors of the product with that factor under dt
LeibnizSum(args) ==
    SumOf([i \in DOMAIN args |->
              ProdOf([j \in DOMAIN args |->
                         IF j = i THEN TimeDerivative(args[j]) ELSE args[j]],
                     Len(args))],
          Len(args))

\* C21: expand of a TimeDerivative node that references the variables: over
\* an expanded operand that is a TimeDerivative it is dt of that operand;
\* over another linear operator Op(y) it is Op of the expansion of dt(y);
\* over a product it is the expansion of the Leibniz sum.  A node that
\* references none of the variables is returned unchanged.
C21_TimeDerivativeExpand ==
    (res.op = "expand" /\ expr.tag = "lin" /\ expr.name = "TimeDerivative") =>
        LET V == res.V
            x == expand(expr.args[1], V)
            out == res.out[1]
        IN /\ ~has(expr, V) => out = expr
           /\ (has(expr, V) /\ x.tag = "lin" /\ x.name = "TimeDerivative") =>
                 out = LinNode("TimeDerivative", 0, "", x)
           /\ (has(expr, V) /\ x.tag = "lin" /\ x.name # "TimeDerivative") =>
                 out = new_operand(x, expand(TimeDerivative(x.args[1]), V))
           /\ (has(expr, V) /\ x.tag = "mul") =>
                 out = expand(LeibnizSum(x.args), V)

\* dt of a product of variables was expanded into one term per factor
C21_Witness ==
    /\ res.op = "expand" /\ expr.tag = "lin" /\ expr.name = "TimeDerivative"
    /\ has(expr, res.V)
    /\ expr.args[1].tag = "mul"
    /\ res.out[1].tag = "add"
    /\ Len(res.out[1].args) = Len(expr.args[1].args)

====
